---- MODULE Spec2Model ----
(***************************************************************************)
(* flashrom_tester: the test sequencer (tester.rs), the scenarios of       *)
(* generic() (tests.rs) and the flashrom / platform wrappers they call     *)
(* (flashrom.rs, cmd.rs, utils.rs), as a state machine.                    *)
(***************************************************************************)
EXTENDS Integers, Sequences, FiniteSets, TLC

VARIABLES
    tests,      \* ts: the registered cases, in registration order
    default_test_params,  \* the TestParams every case refers to
    idx,        \* run_all_tests: index of the case being run (1-based)
    pc,         \* position inside generic / run_test / the scenario body
    res,        \* run_test: `res`, the TestResult of the scenario body
    results,    \* run_all_tests: `results`
    events,     \* history: the hook and body invocations, in order
    returned,   \* history: what each executed body returned, in order
    env,        \* the platform: chip, files, write-protect lines, servo
    ops,        \* history: the external commands run since the case began
    call,       \* history: the last library call, its arguments and result
    outcome,    \* how generic ended: "running", "Ok", "Err" or "panic"
    locals,     \* generic: cmd, chip_name, rom_sz, layout_sizes
    entry       \* history: the write-protect state when run_test was entered

vars == <<tests, default_test_params, idx, pc, res, results, events, returned,
          env, ops, call, outcome, locals, entry>>

\* what the sequencer itself never touches
wvars == <<env, ops, call>>

----------------------------------------------------------------------------
(* Bounds of the model                                                     *)

\* longest sequence of registered cases explored for the sequencer alone
MaxCases == 3

----------------------------------------------------------------------------
(* types.rs, utils.rs: chip kinds and number formatting                    *)

\* enum FlashChip (SERVOv2 in types.rs, SERVO in tests.rs)
FlashChip == {"EC", "HOST", "SERVO", "DEDIPROG"}

\* FlashChip::from with HOST for a text it does not know
FlashChip_from_lenient(s) ==
    CASE s = "ec" -> [ok |-> TRUE, fc |-> "EC"]
      [] s = "host" -> [ok |-> TRUE, fc |-> "HOST"]
      [] s = "servo-v2" -> [ok |-> TRUE, fc |-> "SERVO"]
      [] s = "dediprog" -> [ok |-> TRUE, fc |-> "DEDIPROG"]
      [] OTHER -> [ok |-> TRUE, fc |-> "HOST"]

\* FlashChip::from: the chip kind a text names
FlashChip_from(s) ==
    CASE s = "ec" -> [ok |-> TRUE, fc |-> "EC"]
      [] s = "host" -> [ok |-> TRUE, fc |-> "HOST"]
      [] s = "servo-v2" -> [ok |-> TRUE, fc |-> "SERVO"]
      [] s = "dediprog" -> [ok |-> TRUE, fc |-> "DEDIPROG"]
      [] OTHER -> [ok |-> FALSE, fc |-> "cannot convert str to enum"]

\* FlashChip::to: the programmer selector of a chip kind
FlashChip_to(fc) ==
    CASE fc = "EC" -> "ec"
      [] fc = "HOST" -> "host"
      [] fc = "SERVO" -> "ft2232_spi:type=servo-v2"
      [] fc = "DEDIPROG" -> "dediprog"

HexUpper == <<"0", "1", "2", "3", "4", "5", "6", "7",
              "8", "9", "A", "B", "C", "D", "E", "F">>

\* the hexadecimal digit of v at position i (0 = least significant)
NibbleAt(v, i) == (v \div (16 ^ i)) % 16

\* utils::hex_string: format!("0x{:06X}", v), for 0 <= v < 16^6
hex_string(v) ==
    "0x" \o HexUpper[NibbleAt(v, 5) + 1] \o HexUpper[NibbleAt(v, 4) + 1]
         \o HexUpper[NibbleAt(v, 3) + 1] \o HexUpper[NibbleAt(v, 2) + 1]
         \o HexUpper[NibbleAt(v, 1) + 1] \o HexUpper[NibbleAt(v, 0) + 1]

HexLower == <<"0", "1", "2", "3", "4", "5", "6", "7",
              "8", "9", "a", "b", "c", "d", "e", "f">>

\* the hexadecimal digits of v >= 0, most significant first, no leading zero
RECURSIVE HexDigits(_)
HexDigits(v) ==
    IF v < 16 THEN <<v>> ELSE Append(HexDigits(v \div 16), v % 16)

\* the sixteen hexadecimal digits of the i64 v < 0 in two's complement, for
\* v >= -(16^7): nine digits f, then the seven digits of 16^7 + v
NegHexDigits(v) ==
    [i \in 1..16 |-> IF i <= 9 THEN 15 ELSE NibbleAt((16 ^ 7) + v, 16 - i)]

\* format!("{:x}", v) of an i64: the text as its sequence of characters
lower_hex(v) ==
    LET ds == IF v >= 0 THEN HexDigits(v) ELSE NegHexDigits(v)
    IN  [i \in 1..Len(ds) |-> HexLower[ds[i] + 1]]

\* the literal "000000" of the format strings of construct_layout_file
Zeros == [i \in 1..6 |-> "0"]

\* enum LayoutNames
LayoutNames == {"TopQuad", "TopHalf", "BottomHalf", "BottomQuad"}

\* get_layout_sizes with `rom_sz < 0` for its first test
get_layout_sizes_from_zero(rom_sz) ==
    IF rom_sz < 0
    THEN [ret |-> [ok |-> FALSE, e |-> "invalid rom size provided"], val |-> <<>>]
    ELSE IF rom_sz % 2 # 0
    THEN [ret |-> [ok |-> FALSE, e |-> "invalid rom size, not a power of 2"],
          val |-> <<>>]
    ELSE [ret |-> [ok |-> TRUE, e |-> "None"],
          val |-> [half_sz |-> rom_sz \div 2,
                   quad_sz |-> rom_sz \div 4,
                   rom_top |-> rom_sz - 1,
                   bottom_half_top |-> (rom_sz \div 2) - 1,
                   bottom_quad_top |-> (rom_sz \div 4) - 1,
                   top_quad_bottom |-> (rom_sz \div 4) * 3]]

\* utils::get_layout_sizes; val is the struct LayoutSizes inside Ok
get_layout_sizes(rom_sz) ==
    IF rom_sz <= 0
    THEN [ret |-> [ok |-> FALSE, e |-> "invalid rom size provided"], val |-> <<>>]
    ELSE IF rom_sz % 2 # 0
    THEN [ret |-> [ok |-> FALSE, e |-> "invalid rom size, not a power of 2"],
          val |-> <<>>]
    ELSE [ret |-> [ok |-> TRUE, e |-> "None"],
          val |-> [half_sz |-> rom_sz \div 2,
                   quad_sz |-> rom_sz \div 4,
                   rom_top |-> rom_sz - 1,
                   bottom_half_top |-> (rom_sz \div 2) - 1,
                   bottom_quad_top |-> (rom_sz \div 4) - 1,
                   top_quad_bottom |-> (rom_sz \div 4) * 3]]

\* layout_section with the top quad starting where the top half starts
layout_section_at_half(ls, ln) ==
    CASE ln = "TopQuad" -> <<"TOP_QUAD", ls.half_sz, ls.quad_sz>>
      [] ln = "TopHalf" -> <<"TOP_HALF", ls.half_sz, ls.half_sz>>
      [] ln = "BottomHalf" -> <<"BOTTOM_HALF", 0, ls.half_sz>>
      [] ln = "BottomQuad" -> <<"BOTTOM_QUAD", 0, ls.quad_sz>>

\* utils::layout_section: (name, start, len)
layout_section(ls, ln) ==
    CASE ln = "TopQuad" -> <<"TOP_QUAD", ls.top_quad_bottom, ls.quad_sz>>
      [] ln = "TopHalf" -> <<"TOP_HALF", ls.half_sz, ls.half_sz>>
      [] ln = "BottomHalf" -> <<"BOTTOM_HALF", 0, ls.half_sz>>
      [] ln = "BottomQuad" -> <<"BOTTOM_QUAD", 0, ls.quad_sz>>

\* construct_layout_file writing the first offset after each partition for
\* its end
construct_layout_file_exclusive(ls) ==
    << <<Zeros, ":", lower_hex(ls.quad_sz), "BOTTOM_QUAD">>,
       <<Zeros, ":", lower_hex(ls.half_sz), "BOTTOM_HALF">>,
       <<lower_hex(ls.half_sz), ":", lower_hex(ls.rom_top + 1), "TOP_HALF">>,
       <<lower_hex(ls.top_quad_bottom), ":", lower_hex(ls.rom_top + 1), "TOP_QUAD">> >>

\* utils::construct_layout_file: the four lines written, each as the words
\* first, ":", last, name
construct_layout_file(ls) ==
    << <<Zeros, ":", lower_hex(ls.bottom_quad_top), "BOTTOM_QUAD">>,
       <<Zeros, ":", lower_hex(ls.bottom_half_top), "BOTTOM_HALF">>,
       <<lower_hex(ls.half_sz), ":", lower_hex(ls.rom_top), "TOP_HALF">>,
       <<lower_hex(ls.top_quad_bottom), ":", lower_hex(ls.rom_top), "TOP_QUAD">> >>

----------------------------------------------------------------------------
(* The platform the harness drives: the chip behind the flashing utility,  *)
(* the files under /tmp, the write-protect line and the servo controls.    *)
(* None of it is code of the repository; the harness sees it only through  *)
(* the exit status and the output of the programs it runs.                 *)

\* spurious failures and protection faults of the platform explored per run
MaxFaults == 1

\* a quarter of the chip size the utility reports in the runs explored
QuadSize == 4

RomSize == 4 * QuadSize

READ_DAT == "/tmp/flashrom_tester_read.dat"
RANDOM_BIN == "/tmp/random_content.bin"
LAYOUT_FILE == "/tmp/layout.file"

\* flash contents: as found at the start of the run, equal to the random
\* image, erased, or the original with one section overwritten
Contents == {"orig", "rand", "erased", "mixed"}

\* the hardware write-protect line the chip sees: the servo drives it when
\* fw_wp_en is on, the board (battery, screw) otherwise
hw_wp(e) == IF e.fw_wp_en THEN e.fw_wp ELSE e.battery

\* what a file holds: a flash image, or the lines of a layout
Image(data) == [kind |-> "image", data |-> data]
Layout(lines) == [kind |-> "layout", lines |-> lines]
Absent == [kind |-> "absent"]

\* contents of a file, Absent if it was never written
file(e, path) == IF path \in DOMAIN e.files THEN e.files[path] ELSE Absent

Has(args, flag) == \E i \in 1..Len(args) : args[i] = flag

\* the k-th argument after the first occurrence of flag
ArgAfter(args, flag, k) ==
    LET i == CHOOSE j \in 1..Len(args) : args[j] = flag
    IN  IF i + k <= Len(args) THEN args[i + k] ELSE ""

\* the "0x%06X" texts of the numbers below 2^8
HexTexts == [n \in 0..255 |-> hex_string(n)]

\* the number a "0x%06X" argument stands for (-1 if it is none below 2^8)
UnHex(s) ==
    IF \E n \in 0..255 : HexTexts[n] = s
    THEN CHOOSE n \in 0..255 : HexTexts[n] = s
    ELSE -1

\* the value of a hexadecimal digit character
DigitOf(c) == CHOOSE d \in 0..15 : HexLower[d + 1] = c

\* a text of hexadecimal digits, without a prefix
IsHexText(w) ==
    /\ Len(w) >= 1
    /\ \A i \in 1..Len(w) : \E d \in 0..15 : HexLower[d + 1] = w[i]

\* the digits of a text after its leading zeros
RECURSIVE Significant(_)
Significant(w) ==
    IF Len(w) > 1 /\ w[1] = "0" THEN Significant(Tail(w)) ELSE w

\* the number a text of hexadecimal digits stands for
RECURSIVE HexValue(_)
HexValue(w) ==
    IF Len(w) = 0 THEN 0
    ELSE HexValue(SubSeq(w, 1, Len(w) - 1)) * 16 + DigitOf(w[Len(w)])

\* reading an offset of a layout line: fits is FALSE for a text that is no
\* hexadecimal number or has more than seven significant digits
ParseOffset(w) ==
    IF IsHexText(w) /\ Len(Significant(w)) <= 7
    THEN [fits |-> TRUE, val |-> HexValue(Significant(w))]
    ELSE [fits |-> FALSE, val |-> 0]

\* the number a "{:x}" text of a layout line stands for (-1 if none)
UnLowerHex(w) == IF ParseOffset(w).fits THEN ParseOffset(w).val ELSE -1

\* byte range <<start, len>> of the section a layout file gives a name;
\* a line reads first:last name
SectionOf(layout, name) ==
    IF layout.kind # "layout" THEN <<0, 0>>
    ELSE IF \A i \in 1..Len(layout.lines) : layout.lines[i][4] # name THEN <<0, 0>>
    ELSE LET l == layout.lines[CHOOSE i \in 1..Len(layout.lines) :
                                   layout.lines[i][4] = name]
         IN  IF UnLowerHex(l[1]) < 0 \/ UnLowerHex(l[3]) < 0 THEN <<0, 0>>
             ELSE <<UnLowerHex(l[1]), UnLowerHex(l[3]) - UnLowerHex(l[1]) + 1>>

Overlaps(r1, r2) ==
    /\ r1[2] > 0 /\ r2[2] > 0
    /\ r1[1] < r2[1] + r2[2] /\ r2[1] < r1[1] + r1[2]

\* the chip refuses to change bytes of a region covered by an enabled range
Protected(e, region) == e.sw /\ Overlaps(e.range, region)

\* the chip refuses to change its protection registers while software
\* protection is enabled and the hardware line is asserted
Locked(e) == e.sw /\ hw_wp(e)

\* how one run of an external program can go: as the platform should
\* ("honest"), a spurious nonzero exit or a kill by signal that changes
\* nothing, a chip that carries out what it should have refused and a
\* utility whose output is not what the harness looks for ("faulty"), or the
\* same with output that reads well but is off ("skewed")
Answers == {"honest", "exit", "signal", "faulty", "skewed"}

IsFault(a) == a # "honest"

Fault(e) == [e EXCEPT !.faults = @ + 1]

\* what a run of a program gives back to the harness
Exit(e, status, stdout) == [env |-> e, status |-> status, stdout |-> stdout]

StatusLine(e) ==
    IF e.sw THEN <<"WP:", "write", "protect", "is", "enabled", ".">>
    ELSE <<"WP:", "write", "protect", "is", "disabled", ".">>

\* one run of the flashing utility with the arguments after "-p <programmer>"
Utility(e, a, args) ==
    LET f == Fault(e)
        bad == a \in {"faulty", "skewed"}
        refuse == Exit(e, "exit", <<>>)
        \* carried out if the chip permits it, or if the chip is at fault
        \* (done: the change made to e; undue: the same made to f)
        allow(ok, done, undue) ==
            IF ok THEN Exit(done, "ok", <<>>)
            ELSE IF bad THEN Exit(undue, "ok", <<>>)
            ELSE refuse
        range == <<UnHex(ArgAfter(args, "--wp-range", 1)),
                   UnHex(ArgAfter(args, "--wp-range", 2))>>
        enable(x) == [x EXCEPT !.sw = TRUE, !.range = range]
        setrange(x) == [x EXCEPT !.range = range]
        enable0(x) == [x EXCEPT !.sw = TRUE]
        disable(x) == [x EXCEPT !.sw = FALSE]
        written(x) == [x EXCEPT !.chip = file(e, args[2]).data]
        erased(x) == [x EXCEPT !.chip = "erased"]
        patched(x) == [x EXCEPT !.chip = IF file(e, args[2]).data = e.chip
                                         THEN e.chip ELSE "mixed"]
        section == SectionOf(file(e, args[4]), args[6])
    IN
    IF a = "exit" THEN Exit(f, "exit", <<>>)
    ELSE IF a = "signal" THEN Exit(f, "signal", <<>>)
    ELSE
    CASE args = <<"--get-size">> ->
            IF a = "faulty" THEN Exit(f, "ok", <<<<"unknown", "chip">>>>)
            ELSE IF a = "skewed" THEN Exit(f, "ok", <<<<ToString(RomSize + 1)>>>>)
            ELSE Exit(e, "ok", <<<<ToString(RomSize)>>>>)
      [] args = <<"--flash-name">> ->
            Exit(e, "ok", <<<<"vendor=V">>, <<"name=N">>>>)
      [] args = <<"--wp-list">> ->
            IF bad THEN Exit(f, "ok", <<>>)
            ELSE Exit(e, "ok", <<<<"ranges">>>>)
      [] args = <<"--wp-status">> ->
            IF bad THEN Exit(f, "ok", <<<<"WP:", "unknown">>>>)
            ELSE Exit(e, "ok", <<StatusLine(e)>>)
      [] Len(args) = 4 /\ args[1] = "--wp-range" /\ args[4] = "--wp-enable" ->
            allow(~Locked(e) \/ range = e.range, enable(e), enable(f))
      [] Len(args) = 3 /\ args[1] = "--wp-range" ->
            allow(~Locked(e) \/ range = e.range, setrange(e), setrange(f))
      [] args = <<"--wp-enable">> -> allow(TRUE, enable0(e), enable0(f))
      [] args = <<"--wp-disable">> -> allow(~Locked(e), disable(e), disable(f))
      [] Len(args) = 2 /\ args[1] = "-r" ->
            Exit([e EXCEPT !.files = (args[2] :> Image(e.chip)) @@ @], "ok", <<>>)
      [] Len(args) = 2 /\ args[1] = "-v" ->
            IF file(e, args[2]) = Image(e.chip) THEN Exit(e, "ok", <<>>)
            ELSE refuse
      [] Len(args) = 2 /\ args[1] = "-w" ->
            IF file(e, args[2]).kind # "image" THEN refuse
            ELSE allow(~Protected(e, <<0, RomSize>>), written(e), written(f))
      [] args = <<"-E">> -> allow(~Protected(e, <<0, RomSize>>), erased(e), erased(f))
      [] Len(args) = 7 /\ args[1] = "-w" /\ args[3] = "-l" /\ args[5] = "-i" ->
            IF file(e, args[2]).kind # "image" \/ section[2] <= 0 THEN refuse
            ELSE allow(~Protected(e, section), patched(e), patched(f))
      [] OTHER -> refuse

----------------------------------------------------------------------------
(* tester.rs                                                               *)

\* enum TestConclusion
TestConclusion == {"Pass", "Fail", "UnexpectedPass", "UnexpectedFail"}

\* Option<TestError>::None
None == "None"

\* TestResult = Result<(), TestError>
Ok == [ok |-> TRUE, e |-> None]
Err(e) == [ok |-> FALSE, e |-> e]

\* `res` before the body has returned
NoResult == [ok |-> FALSE, e |-> "<not run>"]

\* decode_test_result with the first two arms exchanged for each other's value
decode_test_result_swapped(r, con) ==
    IF r.ok /\ con = "Fail" THEN [conclusion |-> "UnexpectedFail", error |-> None]
    ELSE IF ~r.ok /\ con = "Pass" THEN [conclusion |-> "UnexpectedPass", error |-> r.e]
    ELSE [conclusion |-> "Pass", error |-> None]

\* decode_test_result that keeps the error of an anticipated failure
decode_test_result_keeps(r, con) ==
    IF r.ok /\ con = "Fail" THEN [conclusion |-> "UnexpectedPass", error |-> None]
    ELSE IF ~r.ok /\ con = "Pass" THEN [conclusion |-> "UnexpectedFail", error |-> r.e]
    ELSE [conclusion |-> "Pass", error |-> r.e]

\* decode_test_result giving the declared conclusion back in its last arm
decode_test_result_echoing(r, con) ==
    IF r.ok /\ con = "Fail" THEN [conclusion |-> "UnexpectedPass", error |-> None]
    ELSE IF ~r.ok /\ con = "Pass" THEN [conclusion |-> "UnexpectedFail", error |-> r.e]
    ELSE [conclusion |-> con, error |-> None]

\* fn decode_test_result(res, con) -> (TestConclusion, Option<TestError>)
decode_test_result(r, con) ==
    IF r.ok /\ con = "Fail" THEN [conclusion |-> "UnexpectedPass", error |-> None]
    ELSE IF ~r.ok /\ con = "Pass" THEN [conclusion |-> "UnexpectedFail", error |-> r.e]
    ELSE [conclusion |-> "Pass", error |-> None]

\* one run of dut-control: the servo controls take the values asked for
DutControl(e, a, args) ==
    IF a = "exit" \/ a = "signal" THEN Exit(Fault(e), a, <<>>)
    ELSE Exit([e EXCEPT !.fw_wp_en = (args[1] = "fw_wp_en:on"),
                        !.fw_wp = (args[2] = "fw_wp:on")], "ok", <<>>)

----------------------------------------------------------------------------
(* utils.rs: text helpers. Output is a sequence of lines, a line a         *)
(* sequence of words.                                                      *)

\* the words of a line joined by single blanks
RECURSIVE LineText(_)
LineText(line) ==
    IF line = <<>> THEN ""
    ELSE IF Len(line) = 1 THEN line[1]
    ELSE line[1] \o " " \o LineText(Tail(line))

\* str::contains on a line, for a pattern that is a sequence of words
Contains(line, pat) ==
    \E i \in 0..(Len(line) - Len(pat)) :
        \A j \in 1..Len(pat) : line[i + j] = pat[j]

\* utils::vgrep: the lines that do not contain m, concatenated
RECURSIVE vgrep(_, _)
vgrep(out, m) ==
    IF out = <<>> THEN ""
    ELSE IF Contains(out[1], <<m>>) THEN vgrep(Tail(out), m)
    ELSE LineText(out[1]) \o vgrep(Tail(out), m)

\* the decimal texts of -1..256
ParseInts == (-1)..256
DecTexts == [n \in ParseInts |-> ToString(n)]

\* str::parse::<i64>, for the decimal texts of ParseInts
parse_i64(text) ==
    IF \E n \in ParseInts : DecTexts[n] = text
    THEN [ok |-> TRUE, v |-> CHOOSE n \in ParseInts : DecTexts[n] = text]
    ELSE [ok |-> FALSE, v |-> 0]

----------------------------------------------------------------------------
(* flashrom.rs: the option set; cmd.rs: its translation and the dispatch   *)

\* Option<(i64, i64)>::None
NoRange == <<>>

\* FlashromOpt::default()
DefaultOpt ==
    [wp_opt |-> [range |-> NoRange, status |-> FALSE, list |-> FALSE,
                 enable |-> FALSE, disable |-> FALSE],
     io_opt |-> [read |-> None, write |-> None, verify |-> None, erase |-> FALSE],
     layout |-> None, image |-> None,
     flash_name |-> FALSE, ignore_fmap |-> FALSE, verbose |-> FALSE]

\* flashrom_decode_opts with an `if` of its own for every io field
flashrom_decode_opts_each(opts) ==
    LET wp_range == IF opts.wp_opt.range # NoRange
                    THEN <<"--wp-range", hex_string(opts.wp_opt.range[1]),
                           hex_string(opts.wp_opt.range[2])>>
                    ELSE <<>>
        wp == IF opts.wp_opt.status THEN <<"--wp-status">>
              ELSE IF opts.wp_opt.list THEN <<"--wp-list">>
              ELSE IF opts.wp_opt.enable THEN <<"--wp-enable">>
              ELSE IF opts.wp_opt.disable THEN <<"--wp-disable">>
              ELSE <<>>
        io == (IF opts.io_opt.read # None THEN <<"-r", opts.io_opt.read>> ELSE <<>>)
              \o (IF opts.io_opt.write # None THEN <<"-w", opts.io_opt.write>>
                  ELSE <<>>)
              \o (IF opts.io_opt.verify # None THEN <<"-v", opts.io_opt.verify>>
                  ELSE <<>>)
              \o (IF opts.io_opt.erase THEN <<"-E">> ELSE <<>>)
        layout == IF opts.layout # None THEN <<"-l", opts.layout>> ELSE <<>>
        image == IF opts.image # None THEN <<"-i", opts.image>> ELSE <<>>
        flash_name == IF opts.flash_name THEN <<"--flash-name">> ELSE <<>>
        ignore_fmap == IF opts.ignore_fmap THEN <<"--ignore-fmap">> ELSE <<>>
        verbose == IF opts.verbose THEN <<"-V">> ELSE <<>>
    IN  wp_range \o wp \o io \o layout \o image \o flash_name \o ignore_fmap
            \o verbose

\* fn flashrom_decode_opts(opts) -> Vec<String>
flashrom_decode_opts(opts) ==
    LET wp_range == IF opts.wp_opt.range # NoRange
                    THEN <<"--wp-range", hex_string(opts.wp_opt.range[1]),
                           hex_string(opts.wp_opt.range[2])>>
                    ELSE <<>>
        wp == IF opts.wp_opt.status THEN <<"--wp-status">>
              ELSE IF opts.wp_opt.list THEN <<"--wp-list">>
              ELSE IF opts.wp_opt.enable THEN <<"--wp-enable">>
              ELSE IF opts.wp_opt.disable THEN <<"--wp-disable">>
              ELSE <<>>
        io == IF opts.io_opt.read # None THEN <<"-r", opts.io_opt.read>>
              ELSE IF opts.io_opt.write # None THEN <<"-w", opts.io_opt.write>>
              ELSE IF opts.io_opt.verify # None THEN <<"-v", opts.io_opt.verify>>
              ELSE IF opts.io_opt.erase THEN <<"-E">>
              ELSE <<>>
        layout == IF opts.layout # None THEN <<"-l", opts.layout>> ELSE <<>>
        image == IF opts.image # None THEN <<"-i", opts.image>> ELSE <<>>
        flash_name == IF opts.flash_name THEN <<"--flash-name">> ELSE <<>>
        ignore_fmap == IF opts.ignore_fmap THEN <<"--ignore-fmap">> ELSE <<>>
        verbose == IF opts.verbose THEN <<"-V">> ELSE <<>>
    IN  wp_range \o wp \o io \o layout \o image \o flash_name \o ignore_fmap
            \o verbose

\* history: one run of an external program, its command line and how it ended
Cmd(argv, status) == [argv |-> argv, status |-> status]

\* a run of the flashing utility with what it wrote to its output
Printed(cmd, stdout) ==
    [argv |-> cmd.argv, status |-> cmd.status, stdout |-> stdout]

\* the platform after one more run
Log(e, cmd) == [e EXCEPT !.log = Append(@, cmd)]

\* what a call gives back: the platform after it, its Result, and the value
\* inside Ok
Ret(e, ret, val) == [env |-> e, ret |-> ret, val |-> val]

\* the code K after a call: every way K can go on every way the call can go
Bind(S, K(_)) == UNION {K(x) : x \in S}

\* how the next run of an external program may go
Allowed(e) == IF e.faults < MaxFaults THEN Answers ELSE {"honest"}

\* a wrapper that hands on the Result of its dispatch; val is whether it is Ok
Handed(d) == Ret(d.env, d.ret, d.ret.ok)

\* a thread that panicked: it unwinds through every caller
Panic(msg) == [ok |-> FALSE, e |-> msg, panic |-> TRUE]

IsPanic(r) == "panic" \in DOMAIN r

\* std::process::Output as flashrom_dispatch reads it: code is
\* output.status.code(), <<c>> for Some(c) and <<>> for None (a signal ended
\* the process); stdout is a list of lines, stderr a text
Output(code, stdout, stderr) ==
    [code |-> code, stdout |-> stdout, stderr |-> stderr]

\* the Output of a run of the platform model: an "exit" is exit code 1
OutputOf(x) ==
    Output(IF x.status = "ok" THEN <<0>> ELSE IF x.status = "exit" THEN <<1>> ELSE <<>>,
           x.stdout, "")

\* dispatch_output taking every exit code for a success
dispatch_output_any_code(o) ==
    IF o.code # <<>>
    THEN [ret |-> Ok, val |-> <<o.stdout, o.stderr>>]
    ELSE [ret |-> Err("Process terminated by a signal"), val |-> <<>>]

\* flashrom_dispatch after Command::output(): the Result made of the Output;
\* val is (stdout, stderr)
dispatch_output(o) ==
    IF o.code = <<0>>
    THEN [ret |-> Ok, val |-> <<o.stdout, o.stderr>>]
    ELSE IF o.code # <<>>
    THEN [ret |-> Err(o.stderr \o "\nExited with error code: "
                               \o ToString(o.code[1])),
          val |-> <<>>]
    ELSE [ret |-> Err("Process terminated by a signal"), val |-> <<>>]

\* flashrom_dispatch putting the programmer after the parameters
flashrom_dispatch_trailing(e, params, fc) ==
    LET args == params \o <<"-p", FlashChip_to(fc)>>
        ran(x) ==
            LET e1 == Log(x.env, Printed(Cmd(<<"flashrom">> \o args, x.status),
                                         x.stdout))
                d == dispatch_output(OutputOf(x))
            IN  Ret(e1, d.ret, IF d.ret.ok THEN d.val[1] ELSE <<>>)
    IN  {ran(Utility(e, a, params)) : a \in Allowed(e)}

\* fn flashrom_dispatch(path, params, fc): runs the utility once; val is
\* the captured stdout
flashrom_dispatch(e, params, fc) ==
    LET args == <<"-p", FlashChip_to(fc)>> \o params
        ran(x) ==
            LET e1 == Log(x.env, Printed(Cmd(<<"flashrom">> \o args, x.status),
                                         x.stdout))
                d == dispatch_output(OutputOf(x))
            IN  Ret(e1, d.ret, IF d.ret.ok THEN d.val[1] ELSE <<>>)
    IN  {ran(Utility(e, a, params)) : a \in Allowed(e)}

\* FlashromCmd::dispatch
dispatch(e, fc, fropt) == flashrom_dispatch(e, flashrom_decode_opts(fropt), fc)

\* FlashromCmd::get_size after its dispatch d: `?`, then the parse of the
\* output without its coreboot lines; val is the size
get_size_parse(d) ==
    LET parsed(n) ==
            IF n.ok THEN Ret(d.env, Ok, n.v)
            ELSE Ret(d.env,
                     Err("'flashrom --get-size' output did not parse as int correctly"),
                     0)
    IN  IF ~d.ret.ok THEN Ret(d.env, d.ret, 0)
        ELSE parsed(parse_i64(vgrep(d.val, "coreboot")))

\* FlashromCmd::get_size; val is the size
get_size(e, fc) ==
    {get_size_parse(d) : d \in flashrom_dispatch(e, <<"--get-size">>, fc)}

\* dut_ctrl_toggle_wp as it would be if it did not look at `en`
dut_ctrl_toggle_wp_deaf(e, en) ==
    LET args == <<"fw_wp_en:off", "fw_wp:on">>
        ran(x) ==
            LET e1 == Log(x.env, Cmd(<<"dut-control">> \o args, x.status))
            IN  IF x.status = "ok" THEN Ret(e1, Ok, x.stdout)
                ELSE IF x.status = "exit"
                THEN Ret(e1, Err("Exited with error code"), <<>>)
                ELSE Ret(e1, Err("Process terminated by a signal"), <<>>)
    IN  {ran(DutControl(e, a, args)) : a \in Allowed(e)}

\* fn dut_ctrl_toggle_wp(en)
dut_ctrl_toggle_wp(e, en) ==
    LET args == IF en THEN <<"fw_wp_en:off", "fw_wp:on">>
                ELSE <<"fw_wp_en:on", "fw_wp:off">>
        ran(x) ==
            LET e1 == Log(x.env, Cmd(<<"dut-control">> \o args, x.status))
            IN  IF x.status = "ok" THEN Ret(e1, Ok, x.stdout)
                ELSE IF x.status = "exit"
                THEN Ret(e1, Err("Exited with error code"), <<>>)
                ELSE Ret(e1, Err("Process terminated by a signal"), <<>>)
    IN  {ran(DutControl(e, a, args)) : a \in Allowed(e)}

----------------------------------------------------------------------------
(* flashrom.rs: the wrappers the scenarios call. Each gives the set of     *)
(* ways the call can go on platform e.                                     *)

\* flashrom::name
flashrom_name(e, fc) ==
    LET named(d) == IF d.ret.ok THEN Ret(d.env, Ok, vgrep(d.val, "coreboot"))
                    ELSE Ret(d.env, d.ret, "")
    IN  {named(d) : d \in dispatch(e, fc, [DefaultOpt EXCEPT !.flash_name = TRUE])}

\* flashrom::write_file_with_layout
write_file_with_layout(e, fc, rws) ==
    {Handed(d) : d \in dispatch(e, fc,
                          [DefaultOpt EXCEPT !.io_opt.write = rws.write_file,
                                             !.layout = rws.layout_file,
                                             !.image = rws.name_file,
                                             !.ignore_fmap = TRUE])}

\* flashrom::wp_range
wp_range(e, fc, range, wp_enable) ==
    {Handed(d) : d \in dispatch(e, fc,
                          [DefaultOpt EXCEPT !.wp_opt.range = range,
                                             !.wp_opt.enable = wp_enable])}

\* flashrom::wp_list
wp_list(e, fc) ==
    LET listed(d) ==
            IF ~d.ret.ok THEN Ret(d.env, d.ret, <<>>)
            ELSE IF d.val = <<>>
            THEN Ret(d.env, Err("wp_list isn't supported on platforms using the Linux kernel SPI driver wp_list"),
                     <<>>)
            ELSE Ret(d.env, Ok, d.val)
    IN  {listed(d) : d \in dispatch(e, fc, [DefaultOpt EXCEPT !.wp_opt.list = TRUE])}

\* the text wp_status looks for
Sentinel(en) == <<"write", "protect", "is", IF en THEN "enabled" ELSE "disabled">>

\* wp_status answering Ok(false) when its dispatch failed
wp_status_lenient(e, fc, en) ==
    LET told(d) ==
            IF ~d.ret.ok THEN Ret(d.env, Ok, FALSE)
            ELSE Ret(d.env, Ok,
                     \E i \in 1..Len(d.val) : Contains(d.val[i], Sentinel(en)))
    IN  {told(d) : d \in dispatch(e, fc, [DefaultOpt EXCEPT !.wp_opt.status = TRUE])}

\* flashrom::wp_status; val is the bool inside Ok
wp_status(e, fc, en) ==
    LET told(d) ==
            IF ~d.ret.ok THEN Ret(d.env, d.ret, FALSE)
            ELSE Ret(d.env, Ok,
                     \E i \in 1..Len(d.val) : Contains(d.val[i], Sentinel(en)))
    IN  {told(d) : d \in dispatch(e, fc, [DefaultOpt EXCEPT !.wp_opt.status = TRUE])}

\* wp_toggle with the guard the write-protect controller is said to have:
\* a disable request is turned down while the hardware line is asserted
wp_toggle_checked(e, fc, en) ==
    LET status == IF en THEN "en" ELSE "dis"
        ranged ==
            IF en THEN {Ret(g.env, g.ret, <<0, g.val>>) : g \in get_size(e, fc)}
            ELSE IF hw_wp(e) THEN {Ret(e, Err("HardwareBlocksSoftware"), NoRange)}
            ELSE {Ret(e, Ok, NoRange)}
        matched(st) ==
            IF st.ret.ok THEN Ret(st.env, Ok, TRUE)
            ELSE Ret(st.env,
                     Err("Cannot " \o status \o "able write-protect: " \o st.ret.e),
                     FALSE)
    IN  Bind(ranged, LAMBDA g :
          IF ~g.ret.ok THEN {Ret(g.env, g.ret, FALSE)}
          ELSE Bind(dispatch(g.env, fc,
                        [DefaultOpt EXCEPT !.wp_opt.range = g.val,
                                           !.wp_opt.enable = en,
                                           !.wp_opt.disable = ~en]),
                    LAMBDA d :
                      IF ~d.ret.ok THEN {Ret(d.env, d.ret, FALSE)}
                      ELSE {matched(st) : st \in wp_status(d.env, fc, TRUE)}))

\* wp_toggle asking for the enable flag without a range
wp_toggle_unranged(e, fc, en) ==
    LET status == IF en THEN "en" ELSE "dis"
        ranged ==
            IF en THEN {Ret(g.env, g.ret, NoRange) : g \in get_size(e, fc)}
            ELSE {Ret(e, Ok, NoRange)}
        matched(st) ==
            IF st.ret.ok THEN Ret(st.env, Ok, TRUE)
            ELSE Ret(st.env,
                     Err("Cannot " \o status \o "able write-protect: " \o st.ret.e),
                     FALSE)
    IN  Bind(ranged, LAMBDA g :
          IF ~g.ret.ok THEN {Ret(g.env, g.ret, FALSE)}
          ELSE Bind(dispatch(g.env, fc,
                        [DefaultOpt EXCEPT !.wp_opt.range = g.val,
                                           !.wp_opt.enable = en,
                                           !.wp_opt.disable = ~en]),
                    LAMBDA d :
                      IF ~d.ret.ok THEN {Ret(d.env, d.ret, FALSE)}
                      ELSE {matched(st) : st \in wp_status(d.env, fc, TRUE)}))

\* flashrom::wp_toggle
wp_toggle(e, fc, en) ==
    LET status == IF en THEN "en" ELSE "dis"
        \* let range = if en { Some((0, cmd.get_size()?)) } else { None };
        ranged ==
            IF en THEN {Ret(g.env, g.ret, <<0, g.val>>) : g \in get_size(e, fc)}
            ELSE {Ret(e, Ok, NoRange)}
        \* match wp_status(&cmd, true)
        matched(st) ==
            IF st.ret.ok THEN Ret(st.env, Ok, TRUE)
            ELSE Ret(st.env,
                     Err("Cannot " \o status \o "able write-protect: " \o st.ret.e),
                     FALSE)
    IN  Bind(ranged, LAMBDA g :
          IF ~g.ret.ok THEN {Ret(g.env, g.ret, FALSE)}
          ELSE Bind(dispatch(g.env, fc,
                        [DefaultOpt EXCEPT !.wp_opt.range = g.val,
                                           !.wp_opt.enable = en,
                                           !.wp_opt.disable = ~en]),
                    LAMBDA d :
                      IF ~d.ret.ok THEN {Ret(d.env, d.ret, FALSE)}
                      ELSE {matched(st) : st \in wp_status(d.env, fc, TRUE)}))

\* flashrom::read
read(e, fc, path) ==
    {Handed(d) : d \in dispatch(e, fc, [DefaultOpt EXCEPT !.io_opt.read = path])}

\* flashrom::write
write(e, fc, path) ==
    {Handed(d) : d \in dispatch(e, fc, [DefaultOpt EXCEPT !.io_opt.write = path])}

\* flashrom::verify
verify(e, fc, path) ==
    {Handed(d) : d \in dispatch(e, fc, [DefaultOpt EXCEPT !.io_opt.verify = path])}

\* flashrom::erase
erase(e, fc) ==
    {Handed(d) : d \in dispatch(e, fc, [DefaultOpt EXCEPT !.io_opt.erase = TRUE])}

----------------------------------------------------------------------------
(* utils.rs: the hardware write-protect line                               *)

\* utils::toggle_hw_wp: asks the operator to (dis)connect the battery and
\* waits for a key; it returns nothing. The operator does as asked, or
\* presses the key without doing it.
toggle_hw_wp(e, dis) ==
    LET s == IF dis THEN "dis" ELSE ""
        e1 == Log(e, Cmd(<<"prompt", " > " \o s \o "connect the battery">>, "ok"))
    IN  {Ret([e1 EXCEPT !.battery = ~dis], Ok, TRUE)}
        \cup (IF e.faults < MaxFaults THEN {Ret(Fault(e1), Ok, TRUE)} ELSE {})

\* utils::get_hardware_wp (gather_system_info in utils.rs): runs crossystem
\* and reads wpsw_cur from its output with parse_crosssystem, whose unwrap
\* panics when no line names wpsw_cur; val is the bool inside Ok
get_hardware_wp(e) ==
    LET logged(x, status, out) == Log(x, Printed(Cmd(<<"crossystem">>, status), out))
        wpsw_cur(v) == <<<<"wpsw_cur", "=", v>>>>
        probed(a) ==
            IF a = "honest"
            THEN Ret(logged(e, "ok", wpsw_cur(IF hw_wp(e) THEN "1" ELSE "0")),
                     Ok, hw_wp(e))
            ELSE IF a = "exit"
            THEN Ret(logged(Fault(e), a, <<>>), Err("Exited with error code"), FALSE)
            ELSE IF a = "signal"
            THEN Ret(logged(Fault(e), a, <<>>), Err("Process terminated by a signal"),
                     FALSE)
            ELSE IF a = "faulty"
            THEN Ret(logged(Fault(e), "ok", wpsw_cur("x")),
                     Err("Hardware write protect is Unknown"), FALSE)
            ELSE Ret(logged(Fault(e), "ok", <<>>),
                     Panic("called Option::unwrap() on a None value"), FALSE)
    IN  {probed(a) : a \in Allowed(e)}

----------------------------------------------------------------------------
(* tests.rs: helpers of the scenarios                                      *)

\* history: fn of tests.rs has been entered, after Len(e.log) external runs
Entered(e, fn) ==
    [e EXCEPT !.calls = Append(@, [fn |-> fn, at |-> Len(e.log)])]

\* consistent_flash_checks returning Ok whatever its verify found
consistent_flash_checks_blind(e, fc) ==
    Bind(verify(Entered(e, "consistent_flash_checks"), fc, READ_DAT), LAMBDA v1 : {Ret(v1.env, Ok, TRUE)})

\* consistent_flash_checks taking the write for the repair, without the
\* verify after it
consistent_flash_checks_unverified(e, fc) ==
    Bind(verify(Entered(e, "consistent_flash_checks"), fc, READ_DAT), LAMBDA v1 :
      IF v1.ret.ok THEN {Ret(v1.env, Ok, TRUE)}
      ELSE write(v1.env, fc, READ_DAT))

\* fn consistent_flash_checks(cmd)
consistent_flash_checks(e, fc) ==
    Bind(verify(Entered(e, "consistent_flash_checks"), fc, READ_DAT), LAMBDA v1 :
      IF v1.ret.ok THEN {Ret(v1.env, Ok, TRUE)}
      ELSE Bind(write(v1.env, fc, READ_DAT), LAMBDA w :
        IF ~w.ret.ok THEN {Ret(w.env, w.ret, FALSE)}
        ELSE verify(w.env, fc, READ_DAT)))

\* `call?` followed by the code K: an error of the call is returned as it is
Try(S, K(_)) ==
    UNION {IF r.ret.ok THEN K(r) ELSE {Ret(r.env, r.ret, FALSE)} : r \in S}

\* test_section without the consistent_flash_checks it begins with
test_section_unchecked(e, fc, section) ==
    LET rws == [layout_file |-> LAYOUT_FILE, write_file |-> RANDOM_BIN,
                name_file |-> section[1]]
    IN
    Try({Ret(e, Ok, TRUE)}, LAMBDA c :
    Try(toggle_hw_wp(c.env, TRUE), LAMBDA h1 :
    Try(wp_toggle(h1.env, fc, FALSE), LAMBDA t :
    Try(toggle_hw_wp(t.env, FALSE), LAMBDA h2 :
    Try(wp_status(h2.env, fc, FALSE), LAMBDA s1 :
    Try(wp_range(s1.env, fc, <<section[2], section[3]>>, TRUE), LAMBDA r :
    Try(wp_status(r.env, fc, FALSE), LAMBDA s2 :
    Bind(write_file_with_layout(s2.env, fc, rws), LAMBDA w :
      IF w.ret.ok
      THEN {Ret(w.env,
                Err("Section should be locked, should not have been overwritable with random data"),
                FALSE)}
      ELSE Bind(verify(w.env, fc, READ_DAT), LAMBDA v :
        IF ~v.ret.ok
        THEN {Ret(v.env,
                  Err("Section didn't locked, has been overwritable with random data!"),
                  FALSE)}
        ELSE {Ret(v.env, Ok, TRUE)})))))))))

\* fn test_section(cmd, section)
test_section(e, fc, section) ==
    LET rws == [layout_file |-> LAYOUT_FILE, write_file |-> RANDOM_BIN,
                name_file |-> section[1]]
    IN
    Try(consistent_flash_checks(e, fc), LAMBDA c :
    Try(toggle_hw_wp(c.env, TRUE), LAMBDA h1 :
    Try(wp_toggle(h1.env, fc, FALSE), LAMBDA t :
    Try(toggle_hw_wp(t.env, FALSE), LAMBDA h2 :
    Try(wp_status(h2.env, fc, FALSE), LAMBDA s1 :
    Try(wp_range(s1.env, fc, <<section[2], section[3]>>, TRUE), LAMBDA r :
    Try(wp_status(r.env, fc, FALSE), LAMBDA s2 :
    Bind(write_file_with_layout(s2.env, fc, rws), LAMBDA w :
      IF w.ret.ok
      THEN {Ret(w.env,
                Err("Section should be locked, should not have been overwritable with random data"),
                FALSE)}
      ELSE Bind(verify(w.env, fc, READ_DAT), LAMBDA v :
        IF ~v.ret.ok
        THEN {Ret(v.env,
                  Err("Section didn't locked, has been overwritable with random data!"),
                  FALSE)}
        ELSE {Ret(v.env, Ok, TRUE)})))))))))

----------------------------------------------------------------------------
(* tests.rs: the scenarios of generic. Each gives the set of ways the body *)
(* can go on platform e; ret is the TestResult it returns.                 *)

\* wpen_of taking the line for de-asserted on the fixture kinds
wpen_of_deasserted(e, param) ==
    IF param.fc # "SERVO" /\ param.fc # "DEDIPROG" THEN get_hardware_wp(e)
    ELSE {Ret(e, Ok, FALSE)}

\* wpen_of asking the platform for every chip kind
wpen_of_asking(e, param) == get_hardware_wp(e)

\* let wpen = if param.fc != SERVO && param.fc != DEDIPROG
\*            { utils::get_hardware_wp()? } else { true };
wpen_of(e, param) ==
    IF param.fc # "SERVO" /\ param.fc # "DEDIPROG" THEN get_hardware_wp(e)
    ELSE {Ret(e, Ok, TRUE)}

\* wp_test_fn with `?` applied to wp_list
wp_test_fn_strict(e, param) ==
    LET fc == param.cmd.fc
        when_protected(x, wanted, then(_)) ==
            IF ~wanted THEN {Ret(x, Ok, TRUE)}
            ELSE Try(wp_status(x, fc, TRUE), LAMBDA s :
                   IF s.val THEN then(s.env) ELSE {Ret(s.env, Ok, TRUE)})
        disable(x) == wp_toggle(x, fc, FALSE)
        deassert_and_disable(x) ==
            Try(toggle_hw_wp(x, TRUE), LAMBDA h : wp_toggle(h.env, fc, FALSE))
    IN
    Try(wpen_of(e, param), LAMBDA wpen :
    Try(wp_list(wpen.env, fc), LAMBDA l :
    Try(when_protected(l.env, ~wpen.val, disable), LAMBDA a :
    Try(when_protected(a.env, wpen.val, deassert_and_disable), LAMBDA b :
    Try(wp_status(b.env, fc, TRUE), LAMBDA s :
      IF s.val
      THEN {Ret(s.env, Err("Cannot disable write protect.  Cannot continue."),
                FALSE)}
      ELSE {Ret(s.env, Ok, TRUE)})))))

\* wp_test_fn ("Toggle WP")
wp_test_fn(e, param) ==
    LET fc == param.cmd.fc
        \* if <wanted> && flashrom::wp_status(cmd, true)? { <then> }
        when_protected(x, wanted, then(_)) ==
            IF ~wanted THEN {Ret(x, Ok, TRUE)}
            ELSE Try(wp_status(x, fc, TRUE), LAMBDA s :
                   IF s.val THEN then(s.env) ELSE {Ret(s.env, Ok, TRUE)})
        disable(x) == wp_toggle(x, fc, FALSE)
        deassert_and_disable(x) ==
            Try(toggle_hw_wp(x, TRUE), LAMBDA h : wp_toggle(h.env, fc, FALSE))
    IN
    Try(wpen_of(e, param), LAMBDA wpen :
    Bind(wp_list(wpen.env, fc), LAMBDA l :
    Try(when_protected(l.env, ~wpen.val, disable), LAMBDA a :
    Try(when_protected(a.env, wpen.val, deassert_and_disable), LAMBDA b :
    Try(wp_status(b.env, fc, TRUE), LAMBDA s :
      IF s.val
      THEN {Ret(s.env, Err("Cannot disable write protect.  Cannot continue."),
                FALSE)}
      ELSE {Ret(s.env, Ok, TRUE)})))))

\* read_test_fn ("Read")
read_test_fn(e, param) ==
    LET fc == param.cmd.fc
    IN
    Try(read(e, fc, READ_DAT), LAMBDA r :
    Try(verify(r.env, fc, READ_DAT), LAMBDA v :
      {Ret(v.env, Ok, TRUE)}))

\* erase_write_test_fn going on to the erase whatever the disable returned
erase_write_test_fn_undeterred(e, param) ==
    LET fc == param.cmd.fc
    IN
    Try(read(e, fc, READ_DAT), LAMBDA r :
    Try(verify(r.env, fc, READ_DAT), LAMBDA v :
    Try(wp_toggle(v.env, fc, TRUE), LAMBDA t1 :
    Try(toggle_hw_wp(t1.env, FALSE), LAMBDA h1 :
    Bind(erase(h1.env, fc), LAMBDA er :
      IF er.ret.ok
      THEN Try(write(er.env, fc, READ_DAT), LAMBDA w :
           Try(verify(w.env, fc, READ_DAT), LAMBDA v2 :
             {Ret(v2.env,
                  Err("Hardware write protect asserted however can still erase!"),
                  FALSE)}))
      ELSE Try(toggle_hw_wp(er.env, TRUE), LAMBDA h2 :
           Bind(wp_toggle(h2.env, fc, FALSE), LAMBDA t2 :
           Try(erase(t2.env, fc), LAMBDA e2 :
           Try(write(e2.env, fc, READ_DAT), LAMBDA w2 :
           Try(wp_toggle(w2.env, fc, TRUE), LAMBDA t3 :
           Try(toggle_hw_wp(t3.env, FALSE), LAMBDA h3 :
             {Ret(h3.env, Ok, TRUE)})))))))))))

\* erase_write_test_fn returning Ok once the image is restored and verified
erase_write_test_fn_forgiving(e, param) ==
    LET fc == param.cmd.fc
    IN
    Try(read(e, fc, READ_DAT), LAMBDA r :
    Try(verify(r.env, fc, READ_DAT), LAMBDA v :
    Try(wp_toggle(v.env, fc, TRUE), LAMBDA t1 :
    Try(toggle_hw_wp(t1.env, FALSE), LAMBDA h1 :
    Bind(erase(h1.env, fc), LAMBDA er :
      IF er.ret.ok
      THEN Try(write(er.env, fc, READ_DAT), LAMBDA w :
           Try(verify(w.env, fc, READ_DAT), LAMBDA v2 :
             {Ret(v2.env, Ok, TRUE)}))
      ELSE Try(toggle_hw_wp(er.env, TRUE), LAMBDA h2 :
           Try(wp_toggle(h2.env, fc, FALSE), LAMBDA t2 :
           Try(erase(t2.env, fc), LAMBDA e2 :
           Try(write(e2.env, fc, READ_DAT), LAMBDA w2 :
           Try(wp_toggle(w2.env, fc, TRUE), LAMBDA t3 :
           Try(toggle_hw_wp(t3.env, FALSE), LAMBDA h3 :
             {Ret(h3.env, Ok, TRUE)})))))))))))

\* erase_write_test_fn ("Erase/Write")
erase_write_test_fn(e, param) ==
    LET fc == param.cmd.fc
    IN
    Try(read(e, fc, READ_DAT), LAMBDA r :
    Try(verify(r.env, fc, READ_DAT), LAMBDA v :
    Try(wp_toggle(v.env, fc, TRUE), LAMBDA t1 :
    Try(toggle_hw_wp(t1.env, FALSE), LAMBDA h1 :
    Bind(erase(h1.env, fc), LAMBDA er :
      IF er.ret.ok
      THEN Try(write(er.env, fc, READ_DAT), LAMBDA w :
           Try(verify(w.env, fc, READ_DAT), LAMBDA v2 :
             {Ret(v2.env,
                  Err("Hardware write protect asserted however can still erase!"),
                  FALSE)}))
      ELSE Try(toggle_hw_wp(er.env, TRUE), LAMBDA h2 :
           Try(wp_toggle(h2.env, fc, FALSE), LAMBDA t2 :
           Try(erase(t2.env, fc), LAMBDA e2 :
           Try(write(e2.env, fc, READ_DAT), LAMBDA w2 :
           Try(wp_toggle(w2.env, fc, TRUE), LAMBDA t3 :
           Try(toggle_hw_wp(t3.env, FALSE), LAMBDA h3 :
             {Ret(h3.env, Ok, TRUE)})))))))))))

\* verify_fail_test_fn ("Fail to verify")
verify_fail_test_fn(e, param) ==
    Try(verify(e, param.cmd.fc, RANDOM_BIN), LAMBDA v : {Ret(v.env, Ok, TRUE)})

\* lock_test_fn going on to the disable whatever the first hardware
\* write-protect check reported
lock_test_fn_unheeding(e, param) ==
    LET fc == param.cmd.fc
    IN
    Try(toggle_hw_wp(e, TRUE), LAMBDA h1 :
    Try(wp_toggle(h1.env, fc, TRUE), LAMBDA t1 :
    Try(wpen_of(t1.env, param), LAMBDA wpen1 :
    Try(wp_status(wpen1.env, fc, TRUE), LAMBDA s1 :
      IF ~s1.val
      THEN {Ret(s1.env, Err("Hardware write protect still asserted!"), FALSE)}
      ELSE
      Try(wp_toggle(s1.env, fc, FALSE), LAMBDA t2 :
      Try(wp_status(t2.env, fc, TRUE), LAMBDA s2 :
        IF s2.val
        THEN {Ret(s2.env, Err("Cannot disable write protect.  Cannot continue."),
                  FALSE)}
        ELSE
        Try(wp_toggle(s2.env, fc, TRUE), LAMBDA t3 :
        Try(toggle_hw_wp(t3.env, FALSE), LAMBDA h2 :
        Try(wpen_of(h2.env, param), LAMBDA wpen2 :
        Try(IF ~wpen2.val THEN {Ret(wpen2.env, Ok, FALSE)}
            ELSE wp_status(wpen2.env, fc, TRUE), LAMBDA s3 :
          IF ~s3.val
          THEN {Ret(s3.env, Err("Hardware write protect was not asserted!"),
                    FALSE)}
          ELSE
          Bind(wp_toggle(s3.env, fc, FALSE), LAMBDA t4 :
            IF t4.ret.ok
            THEN {Ret(t4.env,
                      Err("Soft write-protect didn't stay locked however hardware WP was asserted."),
                      FALSE)}
            ELSE
            Try(wp_status(t4.env, fc, FALSE), LAMBDA s4 :
              IF s4.val
              THEN {Ret(s4.env, Err("Soft write protect wasn't enabled."), FALSE)}
              ELSE {Ret(s4.env, Ok, TRUE)}))))))))))))

\* lock_test_fn ("Lock")
lock_test_fn(e, param) ==
    LET fc == param.cmd.fc
    IN
    Try(toggle_hw_wp(e, TRUE), LAMBDA h1 :
    Try(wp_toggle(h1.env, fc, TRUE), LAMBDA t1 :
    Try(wpen_of(t1.env, param), LAMBDA wpen1 :
    Try(IF wpen1.val THEN {Ret(wpen1.env, Ok, FALSE)}
        ELSE wp_status(wpen1.env, fc, TRUE), LAMBDA s1 :
      IF ~s1.val
      THEN {Ret(s1.env, Err("Hardware write protect still asserted!"), FALSE)}
      ELSE
      Try(wp_toggle(s1.env, fc, FALSE), LAMBDA t2 :
      Try(wp_status(t2.env, fc, TRUE), LAMBDA s2 :
        IF s2.val
        THEN {Ret(s2.env, Err("Cannot disable write protect.  Cannot continue."),
                  FALSE)}
        ELSE
        Try(wp_toggle(s2.env, fc, TRUE), LAMBDA t3 :
        Try(toggle_hw_wp(t3.env, FALSE), LAMBDA h2 :
        Try(wpen_of(h2.env, param), LAMBDA wpen2 :
        Try(IF ~wpen2.val THEN {Ret(wpen2.env, Ok, FALSE)}
            ELSE wp_status(wpen2.env, fc, TRUE), LAMBDA s3 :
          IF ~s3.val
          THEN {Ret(s3.env, Err("Hardware write protect was not asserted!"),
                    FALSE)}
          ELSE
          Bind(wp_toggle(s3.env, fc, FALSE), LAMBDA t4 :
            IF t4.ret.ok
            THEN {Ret(t4.env,
                      Err("Soft write-protect didn't stay locked however hardware WP was asserted."),
                      FALSE)}
            ELSE
            Try(wp_status(t4.env, fc, FALSE), LAMBDA s4 :
              IF s4.val
              THEN {Ret(s4.env, Err("Soft write protect wasn't enabled."), FALSE)}
              ELSE {Ret(s4.env, Ok, TRUE)}))))))))))))

\* lock_top_quad_test_fn, lock_top_half_test_fn, lock_bottom_half_test_fn,
\* lock_bottom_quad_test_fn: the same body for the section ln
lock_section_test_fn(e, param, ln) ==
    LET fc == param.cmd.fc
        \* let layout_sizes = utils::get_layout_sizes(rom_sz)?;
        sized(x, ls) ==
            IF ~ls.ret.ok THEN {Ret(x, ls.ret, FALSE)}
            ELSE test_section(x, fc, layout_section(ls.val, ln))
    IN
    Try(get_size(e, fc), LAMBDA g : sized(g.env, get_layout_sizes(g.val)))

\* mosys::eventlog_list: runs `mosys eventlog list`; val is its output
eventlog_list(e) ==
    LET logged(x, status) == Log(x, Cmd(<<"mosys", "eventlog", "list">>, status))
        listed(a) ==
            IF a = "honest"
            THEN Ret(logged(e, "ok"), Ok, <<<<"0", "|", "Log", "area", "cleared">>>>)
            ELSE IF a = "exit"
            THEN Ret(logged(Fault(e), a), Err("Exited with error code"), <<>>)
            ELSE IF a = "signal"
            THEN Ret(logged(Fault(e), a), Err("Process terminated by a signal"),
                     <<>>)
            ELSE Ret(logged(Fault(e), "ok"), Ok, <<>>)
    IN  {listed(a) : a \in Allowed(e)}

\* the test_fn of coreboot_elog_sanity_test ("Coreboot ELOG sanity")
coreboot_elog_sanity_test_fn(e, param) ==
    IF param.fc # "HOST" THEN {Ret(e, Ok, TRUE)}
    ELSE Try(eventlog_list(e), LAMBDA l :
           IF Cardinality({i \in 1..Len(l.val) : l.val[i] # <<>>}) = 0
           THEN {Ret(l.env, Err("ELOG contained no events"), FALSE)}
           ELSE {Ret(l.env, Ok, TRUE)})

\* consistent_exit_test_fn reading the chip into the saved image file first
consistent_exit_test_fn_recapturing(e, param) ==
    Try(read(e, param.cmd.fc, READ_DAT), LAMBDA r :
    Try(consistent_flash_checks(r.env, param.cmd.fc), LAMBDA c :
      {Ret(c.env, Ok, TRUE)}))

\* consistent_exit_test_fn ("Flash image consistency check at end of tests")
consistent_exit_test_fn(e, param) ==
    Try(consistent_flash_checks(e, param.cmd.fc), LAMBDA c : {Ret(c.env, Ok, TRUE)})

----------------------------------------------------------------------------
(* tester.rs: run_test and run_all_tests                           *)

\* a hook that is not configured (Option::None)
NoHook == "None"

\* struct FlashromCmd
FlashromCmd(path, fc) == [path |-> path, fc |-> fc]

\* struct TestParams
TestParams(cmd, fc, pre_fn, post_fn) ==
    [cmd |-> cmd, fc |-> fc, log_text |-> None, pre_fn |-> pre_fn,
     post_fn |-> post_fn]

\* the locals of generic before it has run
NoLocals == [cmd |-> FlashromCmd("", "EC"), chip_name |-> "", rom_sz |-> 0,
             layout_sizes |-> <<>>, fropt |-> DefaultOpt,
             output |-> Output(<<>>, <<>>, ""), args |-> <<>>, exit |-> <<>>]

\* struct TestCase, with the fields run_test reads
TestCase(name, test_fn, conclusion) ==
    [name |-> name, test_fn |-> test_fn, conclusion |-> conclusion]

\* what `call` holds before any library call
NoCall == [fn |-> "none", args |-> <<>>, ret |-> NoResult, val |-> FALSE,
           cmds |-> <<>>, calls |-> <<>>, was |-> <<>>]

\* the record of a library call: its result and the platform before it
Called(fn, args, r, e) ==
    [fn |-> fn, args |-> args, ret |-> r.ret, val |-> r.val,
     cmds |-> r.env.log, calls |-> r.env.calls, was |-> e]

\* the runs of a log, marked with the case they were made for
Tagged(i, log) ==
    [k \in 1..Len(log) |->
        [case |-> i, argv |-> log[k].argv, status |-> log[k].status]]

\* the {hardware, software} write-protect pair of a platform
NoPair == [hardware |-> FALSE, software |-> FALSE]
WpPair(e) ==
    IF "sw" \in DOMAIN e THEN [hardware |-> hw_wp(e), software |-> e.sw]
    ELSE NoPair

\* the platform with the log handed over
Cleared(e) == [e EXCEPT !.log = <<>>, !.calls = <<>>]

\* a hook of TestParams: the servo closures of tests.rs (their error is
\* logged and dropped), or a closure that only marks that it ran (the
\* atomic flags of the unit test of tester.rs)
RunHook(e, hook) ==
    IF hook = "servo_pre_fn" THEN dut_ctrl_toggle_wp(e, FALSE)
    ELSE IF hook = "servo_post_fn" THEN dut_ctrl_toggle_wp(e, TRUE)
    ELSE {Ret(e, Ok, TRUE)}

\* run_test, up to the call of the body: the pre-hook runs if there is one
RunPre ==
    /\ pc = "pre"
    /\ idx <= Len(tests)
    /\ entry' = WpPair(env)
    /\ LET hook == default_test_params.pre_fn
       IN  \E r \in RunHook(env, hook) :
             /\ env' = Cleared(r.env)
             /\ ops' = ops \o Tagged(idx, r.env.log)
             /\ call' = IF hook = NoHook THEN NoCall
                        ELSE Called(hook, <<>>, r, env)
             /\ events' = IF hook # NoHook
                          THEN Append(events, <<idx, "pre_fn">>) ELSE events
    /\ pc' = "body"
    /\ UNCHANGED <<tests, default_test_params, idx, res, results, returned,
                   outcome, locals>>

\* a body of the unit test of tester.rs: |_| Ok(()) or |_| Err(..)
StubBody ==
    /\ pc = "body"
    /\ tests[idx].test_fn \in {"ok_fn", "err_fn_a", "err_fn_b"}
    /\ res' = CASE tests[idx].test_fn = "ok_fn" -> Ok
                [] tests[idx].test_fn = "err_fn_a" -> Err("I'm a failure")
                [] tests[idx].test_fn = "err_fn_b" -> Err("another failure")
    /\ returned' = Append(returned, res')
    /\ events' = Append(events, <<idx, "test_fn">>)
    /\ pc' = "post"
    /\ UNCHANGED <<entry, tests, default_test_params, idx, results, outcome, locals, wvars>>

\* run_test with the post-hook skipped when the body failed (as if the body
\* were called with `?` before the hook)
RunPost_only_after_ok ==
    /\ pc = "post"
    /\ events' = IF default_test_params.post_fn # NoHook /\ res.ok
                  THEN Append(events, <<idx, "post_fn">>) ELSE events
    /\ pc' = "decode"
    /\ UNCHANGED <<entry, tests, default_test_params, idx, res, results, returned,
                   outcome, locals, wvars>>

\* run_test: the post-hook runs if there is one, whatever the body returned
RunPost ==
    /\ pc = "post"
    /\ LET hook == default_test_params.post_fn
       IN  \E r \in RunHook(env, hook) :
             /\ env' = Cleared(r.env)
             /\ ops' = ops \o Tagged(idx, r.env.log)
             /\ call' = IF hook = NoHook THEN call
                        ELSE Called(hook, <<>>, r, env)
             /\ events' = IF hook # NoHook
                          THEN Append(events, <<idx, "post_fn">>) ELSE events
    /\ pc' = "decode"
    /\ UNCHANGED <<entry, tests, default_test_params, idx, res, results, returned,
                   outcome, locals>>

\* run_all_tests putting each new entry in front of the earlier ones
Decode_in_front ==
    /\ pc = "decode"
    /\ results' = <<[name |-> tests[idx].name,
                     out  |-> decode_test_result(res, tests[idx].conclusion)]>>
                  \o results
    /\ idx' = idx + 1
    /\ res' = NoResult
    /\ pc' = IF idx + 1 <= Len(tests) THEN "pre" ELSE "ran_all"
    /\ UNCHANGED <<entry, tests, default_test_params, events, returned, outcome, locals, wvars>>

\* run_all_tests stepping over the case after the one it ran
Decode_skips_next ==
    /\ pc = "decode"
    /\ results' = Append(results,
                     [name |-> tests[idx].name,
                      out  |-> decode_test_result(res, tests[idx].conclusion)])
    /\ idx' = idx + 2
    /\ res' = NoResult
    /\ pc' = IF idx + 2 <= Len(tests) THEN "pre" ELSE "ran_all"
    /\ UNCHANGED <<entry, tests, default_test_params, events, returned, outcome, locals, wvars>>

\* run_test returns decode_test_result(res, t.conclusion); run_all_tests
\* pushes (t.name, that), goes on to the next case and returns after the last
Decode ==
    /\ pc = "decode"
    /\ results' = Append(results,
                     [name |-> tests[idx].name,
                      out  |-> decode_test_result(res, tests[idx].conclusion)])
    /\ idx' = idx + 1
    /\ res' = NoResult
    /\ pc' = IF idx + 1 <= Len(tests) THEN "pre" ELSE "ran_all"
    /\ UNCHANGED <<entry, tests, default_test_params, events, returned, outcome, locals, wvars>>

----------------------------------------------------------------------------
(* The sequencer alone: any registered cases, any hooks, bodies as in the  *)
(* unit test of tester.rs                                                  *)

CaseNames == <<"ExpectedPass", "second", "third", "fourth", "fifth">>

StubCases(n) ==
    {ts \in [1..n -> [test_fn : {"ok_fn", "err_fn_a", "err_fn_b"},
                      conclusion : TestConclusion]] : TRUE}

InitTester ==
    /\ \E n \in 1..MaxCases : \E ts \in StubCases(n) :
         tests = [i \in 1..n |->
                    TestCase(CaseNames[i], ts[i].test_fn, ts[i].conclusion)]
    /\ \E pre \in {NoHook, "flag_pre"}, post \in {NoHook, "flag_post"} :
         default_test_params = TestParams(FlashromCmd("", "EC"), "HOST", pre, post)
    /\ locals = NoLocals
    /\ idx = 1
    /\ pc = "pre"
    /\ res = NoResult
    /\ results = <<>>
    /\ events = <<>>
    /\ returned = <<>>
    /\ outcome = "running"
    /\ env = [chip |-> "orig", sw |-> FALSE, range |-> <<0, 0>>,
              battery |-> FALSE, fw_wp_en |-> FALSE, fw_wp |-> FALSE,
              files |-> <<>>, faults |-> 0, log |-> <<>>,
              calls |-> <<>>]
    /\ ops = <<>>
    /\ call = NoCall
    /\ entry = NoPair

NextTester == RunPre \/ StubBody \/ RunPost \/ Decode

SpecTester == InitTester /\ [][NextTester]_vars

----------------------------------------------------------------------------
(* tests.rs: generic, from its first statement to its return               *)

\* File::create(LAYOUT_FILE)?, utils::construct_layout_file(..)? and
\* f.write_all(..)?: the layout file is written, or the file system
\* turns it down
write_layout_file(e, ls) ==
    LET e1 == Log(e, Cmd(<<"create", LAYOUT_FILE>>, "ok"))
        e2 == Log(Fault(e), Cmd(<<"create", LAYOUT_FILE>>, "exit"))
    IN  {Ret([e1 EXCEPT !.files =
                  (LAYOUT_FILE :> Layout(construct_layout_file(ls))) @@ @],
             Ok, TRUE)}
        \cup (IF e.faults < MaxFaults
              THEN {Ret(e2, Err("Permission denied"), FALSE)} ELSE {})

\* rand_util::gen_rand_testdata(path, size): a file of random bytes
gen_rand_testdata(e, path, size) ==
    LET e1 == Log(e, Cmd(<<"create", path>>, "ok"))
        e2 == Log(Fault(e), Cmd(<<"create", path>>, "exit"))
    IN  {Ret([e1 EXCEPT !.files = (path :> Image("rand")) @@ @], Ok, TRUE)}
        \cup (IF e.faults < MaxFaults
              THEN {Ret(e2, Err("Permission denied"), FALSE)} ELSE {})

\* utils::collect_crosssystem: runs crossystem; val is its output
collect_crosssystem(e) ==
    LET logged(x, status) == Log(x, Cmd(<<"crossystem">>, status))
        collected(a) ==
            IF a = "exit"
            THEN Ret(logged(Fault(e), a), Err("Exited with error code"), <<>>)
            ELSE IF a = "signal"
            THEN Ret(logged(Fault(e), a), Err("Process terminated by a signal"),
                     <<>>)
            ELSE Ret(logged(e, "ok"), Ok,
                     <<<<"wpsw_cur", "=", IF hw_wp(e) THEN "1" ELSE "0">>>>)
    IN  {collected(a) : a \in Allowed(e)}

\* fn host(cmd), fn servo(cmd), fn dediprog(cmd), the arms of the match on fc
params_for(cmd) ==
    CASE cmd.fc = "HOST" -> TestParams(cmd, "HOST", NoHook, NoHook)
      [] cmd.fc = "SERVO" -> TestParams(cmd, "SERVO", "servo_pre_fn", "servo_post_fn")
      [] cmd.fc = "DEDIPROG" -> TestParams(cmd, "DEDIPROG", NoHook, NoHook)

\* the cases with the consistency check registered before "Lock top half"
registered_check_early ==
    << TestCase("Toggle WP", "wp_test_fn", "Pass"),
       TestCase("Read", "read_test_fn", "Pass"),
       TestCase("Erase/Write", "erase_write_test_fn", "Pass"),
       TestCase("Fail to verify", "verify_fail_test_fn", "Fail"),
       TestCase("Lock", "lock_test_fn", "Pass"),
       TestCase("Lock top quad", "lock_top_quad_test_fn", "Pass"),
       TestCase("Lock bottom quad", "lock_bottom_quad_test_fn", "Pass"),
       TestCase("Lock bottom half", "lock_bottom_half_test_fn", "Pass"),
       TestCase("Flash image consistency check at end of tests",
                "consistent_exit_test_fn", "Pass"),
       TestCase("Coreboot ELOG sanity", "coreboot_elog_sanity_test_fn", "Pass"),
       TestCase("Lock top half", "lock_top_half_test_fn", "Pass") >>

\* let tests = [&wp_test, &read_test, ...]: the cases in registration order
registered ==
    << TestCase("Toggle WP", "wp_test_fn", "Pass"),
       TestCase("Read", "read_test_fn", "Pass"),
       TestCase("Erase/Write", "erase_write_test_fn", "Pass"),
       TestCase("Fail to verify", "verify_fail_test_fn", "Fail"),
       TestCase("Lock", "lock_test_fn", "Pass"),
       TestCase("Lock top quad", "lock_top_quad_test_fn", "Pass"),
       TestCase("Lock bottom quad", "lock_bottom_quad_test_fn", "Pass"),
       TestCase("Lock bottom half", "lock_bottom_half_test_fn", "Pass"),
       TestCase("Lock top half", "lock_top_half_test_fn", "Pass"),
       TestCase("Coreboot ELOG sanity", "coreboot_elog_sanity_test_fn", "Pass"),
       TestCase("Flash image consistency check at end of tests",
                "consistent_exit_test_fn", "Pass") >>

\* a statement of the setup of generic: a call with `?`. On Ok generic goes
\* on to `next` with the locals `kept`; on Err it returns that error.
\* a setup statement without its `?`: generic goes on after an error
SetupStep_unchecked(fn, r, next, kept) ==
    /\ env' = Cleared(r.env)
    /\ ops' = ops \o Tagged(0, r.env.log)
    /\ call' = Called(fn, <<>>, r, env)
    /\ pc' = next /\ locals' = kept /\ outcome' = outcome
    /\ UNCHANGED <<entry, tests, default_test_params, idx, res, results, events,
                   returned>>

SetupStep(fn, r, next, kept) ==
    /\ env' = Cleared(r.env)
    /\ ops' = ops \o Tagged(0, r.env.log)
    /\ call' = Called(fn, <<>>, r, env)
    /\ IF r.ret.ok
       THEN pc' = next /\ locals' = kept /\ outcome' = outcome
       ELSE pc' = "done" /\ locals' = locals /\ outcome' = "Err"
    /\ UNCHANGED <<entry, tests, default_test_params, idx, res, results, events,
                   returned>>

\* let chip_name = flashrom::name(&cmd)?;
Generic_name ==
    /\ pc = "name"
    /\ \E r \in flashrom_name(env, locals.cmd.fc) :
         SetupStep("name", r, "get_size",
                  [locals EXCEPT !.chip_name = r.val])

\* let rom_sz: i64 = cmd.get_size()?;
Generic_get_size ==
    /\ pc = "get_size"
    /\ \E r \in get_size(env, locals.cmd.fc) :
         SetupStep("get_size", r, "get_layout_sizes",
                  [locals EXCEPT !.rom_sz = r.val])

\* let layout_sizes = utils::get_layout_sizes(rom_sz)?;
Generic_get_layout_sizes ==
    /\ pc = "get_layout_sizes"
    /\ \E ls \in {get_layout_sizes(locals.rom_sz)} :
         SetupStep("get_layout_sizes",
                  Ret(env, ls.ret, ls.val), "layout_file",
                  [locals EXCEPT !.layout_sizes = ls.val])

\* the block that creates and fills LAYOUT_FILE
Generic_layout_file ==
    /\ pc = "layout_file"
    /\ \E r \in write_layout_file(env, locals.layout_sizes) :
         SetupStep("construct_layout_file", r, "gen_rand_testdata",
                  locals)

\* rand_util::gen_rand_testdata("/tmp/random_content.bin", rom_sz as usize)?;
Generic_gen_rand_testdata ==
    /\ pc = "gen_rand_testdata"
    /\ \E r \in gen_rand_testdata(env, RANDOM_BIN, locals.rom_sz) :
         SetupStep("gen_rand_testdata", r,
                  "collect_crosssystem", locals)

\* utils::collect_crosssystem()?
Generic_collect_crosssystem ==
    /\ pc = "collect_crosssystem"
    /\ \E r \in collect_crosssystem(env) :
         SetupStep("collect_crosssystem", r, "params",
                  locals)

\* generic with an ec() that returns parameters, as host() does
Generic_params_ec_like_host ==
    /\ pc = "params"
    /\ default_test_params' = TestParams(locals.cmd, locals.cmd.fc,
                                         params_for([locals.cmd EXCEPT !.fc =
                                             IF @ = "EC" THEN "HOST" ELSE @]).pre_fn,
                                         params_for([locals.cmd EXCEPT !.fc =
                                             IF @ = "EC" THEN "HOST" ELSE @]).post_fn)
    /\ tests' = registered
    /\ pc' = "pre"
    /\ outcome' = outcome
    /\ UNCHANGED <<entry, idx, res, results, events, returned, locals, wvars>>

\* let default_test_params = match fc { .. }; ec() panics. Then the cases
\* are built and registered and run_all_tests starts with the first.
Generic_params ==
    /\ pc = "params"
    /\ IF locals.cmd.fc = "EC"
       THEN /\ pc' = "done"
            /\ outcome' = "panic"
            /\ UNCHANGED <<tests, default_test_params>>
       ELSE /\ default_test_params' = params_for(locals.cmd)
            /\ tests' = registered
            /\ pc' = "pre"
            /\ outcome' = outcome
    /\ UNCHANGED <<entry, idx, res, results, events, returned, locals, wvars>>

\* run_test as it would be with `(t.test_fn)(params)?` carried up to
\* generic: an error of the body ends the run
RunBody_propagates(name, S) ==
    /\ pc = "body"
    /\ tests[idx].test_fn = name
    /\ \E r \in S :
         /\ env' = Cleared(r.env)
         /\ ops' = ops \o Tagged(idx, r.env.log)
         /\ call' = Called(name, <<>>, r, env)
         /\ IF IsPanic(r.ret)
            THEN /\ pc' = "done"
                 /\ outcome' = "panic"
                 /\ UNCHANGED <<res, returned>>
            ELSE /\ pc' = IF r.ret.ok THEN "post" ELSE "done"
                 /\ outcome' = IF r.ret.ok THEN outcome ELSE "Err"
                 /\ res' = r.ret
                 /\ returned' = Append(returned, r.ret)
    /\ events' = Append(events, <<idx, "test_fn">>)
    /\ UNCHANGED <<entry, tests, default_test_params, idx, results, locals>>

\* run_test: the call of the body (t.test_fn)(params). A panic of the body
\* unwinds through run_test, run_all_tests and generic.
RunBody(name, S) ==
    /\ pc = "body"
    /\ tests[idx].test_fn = name
    /\ \E r \in S :
         /\ env' = Cleared(r.env)
         /\ ops' = ops \o Tagged(idx, r.env.log)
         /\ call' = Called(name, <<>>, r, env)
         /\ IF IsPanic(r.ret)
            THEN /\ pc' = "done"
                 /\ outcome' = "panic"
                 /\ UNCHANGED <<res, returned>>
            ELSE /\ pc' = "post"
                 /\ outcome' = outcome
                 /\ res' = r.ret
                 /\ returned' = Append(returned, r.ret)
    /\ events' = Append(events, <<idx, "test_fn">>)
    /\ UNCHANGED <<entry, tests, default_test_params, idx, results, locals>>

Body_wp_test == RunBody("wp_test_fn", wp_test_fn(env, default_test_params))

Body_read_test == RunBody("read_test_fn", read_test_fn(env, default_test_params))

Body_erase_write_test ==
    RunBody("erase_write_test_fn", erase_write_test_fn(env, default_test_params))

Body_verify_fail_test ==
    RunBody("verify_fail_test_fn", verify_fail_test_fn(env, default_test_params))

Body_lock_test == RunBody("lock_test_fn", lock_test_fn(env, default_test_params))

Body_lock_top_quad_test ==
    RunBody("lock_top_quad_test_fn",
            lock_section_test_fn(env, default_test_params, "TopQuad"))

Body_lock_top_half_test ==
    RunBody("lock_top_half_test_fn",
            lock_section_test_fn(env, default_test_params, "TopHalf"))

Body_lock_bottom_half_test ==
    RunBody("lock_bottom_half_test_fn",
            lock_section_test_fn(env, default_test_params, "BottomHalf"))

Body_lock_bottom_quad_test ==
    RunBody("lock_bottom_quad_test_fn",
            lock_section_test_fn(env, default_test_params, "BottomQuad"))

Body_coreboot_elog_sanity_test ==
    RunBody("coreboot_elog_sanity_test_fn",
            coreboot_elog_sanity_test_fn(env, default_test_params))

Body_consistent_exit_test ==
    RunBody("consistent_exit_test_fn",
            consistent_exit_test_fn(env, default_test_params))

\* tester::collate_all_test_runs(&results, meta_data); Ok(())
Generic_collate ==
    /\ pc = "ran_all"
    /\ pc' = "done"
    /\ outcome' = "Ok"
    /\ UNCHANGED <<entry, tests, default_test_params, idx, res, results, events,
                   returned, locals, wvars>>

\* the servo controls <<fw_wp_en, fw_wp>> as an earlier session may have
\* left them
ServoStates == BOOLEAN \X BOOLEAN

\* the chips and boards generic is started on
Init ==
    /\ tests = <<>>
    /\ \E fc \in FlashChip :
         /\ locals = [NoLocals EXCEPT !.cmd = FlashromCmd("flashrom", fc)]
         /\ default_test_params = TestParams(locals.cmd, "unset", NoHook, NoHook)
    /\ idx = 1
    /\ pc = "name"
    /\ res = NoResult
    /\ results = <<>>
    /\ events = <<>>
    /\ returned = <<>>
    /\ outcome = "running"
    /\ \E sw \in BOOLEAN, battery \in BOOLEAN, servo \in ServoStates :
         /\ locals.cmd.fc # "SERVO" => servo = <<FALSE, FALSE>>
         /\ env = [chip |-> "orig", sw |-> sw,
                   range |-> IF sw THEN <<0, RomSize>> ELSE <<0, 0>>,
                   battery |-> battery, fw_wp_en |-> servo[1], fw_wp |-> servo[2],
                   files |-> <<>>, faults |-> 0, log |-> <<>>,
              calls |-> <<>>]
    /\ ops = <<>>
    /\ call = NoCall
    /\ entry = NoPair

Next ==
    \/ Generic_name \/ Generic_get_size \/ Generic_get_layout_sizes
    \/ Generic_layout_file \/ Generic_gen_rand_testdata
    \/ Generic_collect_crosssystem \/ Generic_params
    \/ RunPre
    \/ Body_wp_test \/ Body_read_test \/ Body_erase_write_test
    \/ Body_verify_fail_test \/ Body_lock_test \/ Body_lock_top_quad_test
    \/ Body_lock_bottom_quad_test \/ Body_lock_bottom_half_test
    \/ Body_lock_top_half_test \/ Body_coreboot_elog_sanity_test
    \/ Body_consistent_exit_test
    \/ RunPost \/ Decode
    \/ Generic_collate

Spec == Init /\ [][Next]_vars

----------------------------------------------------------------------------
(* main.rs: the process, from its command line to its exit status          *)

\* the command lines tried: the program name and up to three arguments
CommandLines ==
    LET paths == {"", "flashrom"}
        kinds == {"", "ec", "host", "servo-v2", "dediprog", "bogus"}
    IN  {<<"flashrom_tester">>}
        \cup {<<"flashrom_tester", p>> : p \in paths}
        \cup {<<"flashrom_tester", p, k>> : p \in paths, k \in kinds}
        \cup {<<"flashrom_tester", p, k, "host">> : p \in paths, k \in kinds}

\* parse_args and dispatch_args, up to the call of tests::generic
Main_parse_args ==
    /\ pc = "main"
    /\ LET args == locals.args
           fc == FlashChip_from(args[3])
           failed(msg) ==
               /\ pc' = "help"
               /\ outcome' = "Err"
               /\ call' = Called("parse_args", <<>>, Ret(env, Err(msg), FALSE), env)
               /\ UNCHANGED locals
       IN  IF Len(args) = 1 THEN failed("No arguments passed!")
           ELSE IF Len(args) # 3
           THEN failed("Incorrect number of arguments passed, expected 3.")
           ELSE IF args[2] = "" THEN failed("Missing flashrom path")
           ELSE IF ~fc.ok
           THEN failed("Missing flashchip type, should be either 'ec', 'host', or 'servo-v2'.")
           ELSE /\ pc' = "name"
                /\ locals' = [locals EXCEPT !.cmd = FlashromCmd(args[2], fc.fc)]
                /\ UNCHANGED <<outcome, call>>
    /\ UNCHANGED <<entry, tests, default_test_params, idx, res, results, events,
                   returned, env, ops>>

\* main after parse_args: `return`, or help(..) and the end of main; a
\* panic ends the process with status 101
Main_return ==
    /\ pc \in {"help", "done"}
    /\ pc' = "exited"
    /\ locals' = [locals EXCEPT !.exit = <<IF outcome = "panic" THEN 101 ELSE 0>>]
    /\ UNCHANGED <<entry, tests, default_test_params, idx, res, results, events,
                   returned, env, ops, outcome, call>>

InitMain ==
    /\ tests = <<>>
    /\ locals \in {[NoLocals EXCEPT !.args = a] : a \in CommandLines}
    /\ default_test_params = TestParams(locals.cmd, "unset", NoHook, NoHook)
    /\ idx = 1
    /\ pc = "main"
    /\ res = NoResult
    /\ results = <<>>
    /\ events = <<>>
    /\ returned = <<>>
    /\ outcome = "running"
    /\ \E sw \in BOOLEAN, battery \in BOOLEAN :
         env = [chip |-> "orig", sw |-> sw,
                range |-> IF sw THEN <<0, RomSize>> ELSE <<0, 0>>,
                battery |-> battery, fw_wp_en |-> FALSE, fw_wp |-> FALSE,
                files |-> <<>>, faults |-> 0, log |-> <<>>, calls |-> <<>>]
    /\ ops = <<>>
    /\ call = NoCall
    /\ entry = NoPair

NextMain == Main_parse_args \/ Next \/ Main_return

SpecMain == InitMain /\ [][NextMain]_vars

----------------------------------------------------------------------------
(* utils.rs: the layout functions alone, on any rom size                   *)

MaxRomSize == 40
MaxRomBits == 24

\* the rom sizes tried: every small one, and the powers of two up to 16 MiB
RomSizes == ((-MaxRomSize)..MaxRomSize) \cup {2 ^ k : k \in 1..MaxRomBits}

LayoutCall(fn, args, r) ==
    /\ pc = "layout"
    /\ env' = [r.env EXCEPT !.faults = 0, !.log = <<>>, !.calls = <<>>]
    /\ ops' = Tagged(0, r.env.log)
    /\ call' = Called(fn, args, r, env)
    /\ UNCHANGED <<entry, tests, default_test_params, idx, pc, res, results,
                   events, returned, outcome>>

\* let layout_sizes = utils::get_layout_sizes(rom_sz)?;
Layout_get_layout_sizes ==
    \E n \in RomSizes : \E ls \in {get_layout_sizes(n)} :
        /\ LayoutCall("get_layout_sizes", <<n>>, Ret(env, ls.ret, ls.val))
        /\ locals' = [locals EXCEPT !.rom_sz = n, !.layout_sizes = ls.val]

\* utils::layout_section(&layout_sizes, ln)
Layout_layout_section ==
    /\ locals.layout_sizes # <<>>
    /\ \E ln \in LayoutNames :
         LayoutCall("layout_section", <<ln>>,
                    Ret(env, Ok, layout_section(locals.layout_sizes, ln)))
    /\ UNCHANGED locals

\* utils::construct_layout_file and the write of its lines to LAYOUT_FILE
Layout_construct_layout_file ==
    /\ locals.layout_sizes # <<>>
    /\ \E r \in write_layout_file(env, locals.layout_sizes) :
         LayoutCall("construct_layout_file", <<>>, r)
    /\ UNCHANGED locals

InitLayout ==
    /\ tests = <<>>
    /\ default_test_params = TestParams(FlashromCmd("flashrom", "HOST"), "HOST",
                                        NoHook, NoHook)
    /\ locals = NoLocals
    /\ idx = 1
    /\ pc = "layout"
    /\ res = NoResult
    /\ results = <<>>
    /\ events = <<>>
    /\ returned = <<>>
    /\ outcome = "running"
    /\ env = [chip |-> "orig", sw |-> FALSE, range |-> <<0, 0>>,
              battery |-> TRUE, fw_wp_en |-> FALSE, fw_wp |-> FALSE,
              files |-> <<>>, faults |-> 0, log |-> <<>>, calls |-> <<>>]
    /\ ops = <<>>
    /\ call = NoCall
    /\ entry = NoPair

NextLayout ==
    \/ Layout_get_layout_sizes \/ Layout_layout_section
    \/ Layout_construct_layout_file

SpecLayout == InitLayout /\ [][NextLayout]_vars

----------------------------------------------------------------------------
(* cmd.rs: the translation of an option set, on any option set             *)

\* the texts among those tried that hold a space
Spaced == {"/tmp/my read.dat", "TOP QUAD"}

\* the option sets tried: every combination of set and unset fields; a
\* read path and an image name also with a space in them
FlashromOpts ==
    [wp_opt : [range : {NoRange, <<0, QuadSize>>}, status : BOOLEAN,
               list : BOOLEAN, enable : BOOLEAN, disable : BOOLEAN],
     io_opt : [read : {None, READ_DAT, "/tmp/my read.dat"},
               write : {None, RANDOM_BIN}, verify : {None, READ_DAT},
               erase : BOOLEAN],
     layout : {None, LAYOUT_FILE},
     image : {None, "TOP_QUAD", "TOP QUAD"},
     flash_name : BOOLEAN, ignore_fmap : BOOLEAN, verbose : BOOLEAN]

OptsCall(fn, r, next) ==
    /\ pc = "opts"
    /\ pc' = next
    /\ env' = [r.env EXCEPT !.faults = 0, !.log = <<>>, !.calls = <<>>]
    /\ ops' = Tagged(0, r.env.log)
    /\ call' = Called(fn, <<locals.cmd.fc, locals.fropt>>, r, env)
    /\ UNCHANGED <<entry, tests, default_test_params, idx, locals, res, results,
                   events, returned, outcome>>

\* let params = flashrom_decode_opts(fropt);
Opts_flashrom_decode_opts ==
    /\ pc = "opts"
    /\ OptsCall("flashrom_decode_opts",
                Ret(env, Ok, flashrom_decode_opts(locals.fropt)), "opts")

\* FlashromCmd::dispatch(fropt)
Opts_dispatch ==
    \E r \in dispatch(env, locals.cmd.fc, locals.fropt) :
        OptsCall("dispatch", r, "done")

InitOpts ==
    /\ tests = <<>>
    /\ default_test_params = TestParams(FlashromCmd("flashrom", "HOST"), "HOST",
                                        NoHook, NoHook)
    /\ locals \in {[NoLocals EXCEPT !.cmd = FlashromCmd("flashrom", fc),
                                    !.fropt = o] :
                       fc \in FlashChip, o \in FlashromOpts}
    /\ idx = 1
    /\ pc = "opts"
    /\ res = NoResult
    /\ results = <<>>
    /\ events = <<>>
    /\ returned = <<>>
    /\ outcome = "running"
    /\ env = [chip |-> "orig", sw |-> FALSE, range |-> <<0, 0>>,
              battery |-> TRUE, fw_wp_en |-> FALSE, fw_wp |-> FALSE,
              files |-> <<>>, faults |-> 0, log |-> <<>>, calls |-> <<>>]
    /\ ops = <<>>
    /\ call = NoCall
    /\ entry = NoPair

NextOpts == Opts_flashrom_decode_opts \/ Opts_dispatch

SpecOpts == InitOpts /\ [][NextOpts]_vars

----------------------------------------------------------------------------
(* cmd.rs: the Result made of a finished run, on any way it can finish     *)

MaxCode == 3

\* the ways a run of the utility can finish: by a signal or with an exit
\* code, having written some lines and some error text
Outputs ==
    {Output(c, out, err) :
        c \in {<<>>} \cup {<<n>> : n \in 0..MaxCode},
        out \in {<<>>, <<<<ToString(RomSize)>>>>, <<<<"unknown", "chip">>>>,
                 << <<"coreboot", "table", "found">>, <<ToString(RomSize)>> >>},
        err \in {"", "No EEPROM/flash device found.", "Error: Programmer initialization failed."}}

GatewayCall(fn, r) ==
    /\ pc = "gateway"
    /\ call' = Called(fn, <<locals.output>>, r, env)
    /\ ops' = <<>>
    /\ UNCHANGED <<entry, tests, default_test_params, idx, locals, res, results,
                   events, returned, outcome, env, pc>>

\* flashrom_dispatch, from the Output of its run on
Gateway_flashrom_dispatch ==
    /\ pc = "gateway"
    /\ \E d \in {dispatch_output(locals.output)} :
         GatewayCall("flashrom_dispatch", Ret(env, d.ret, d.val))

\* FlashromCmd::get_size, from the Output of its run on
Gateway_get_size ==
    /\ pc = "gateway"
    /\ \E d \in {dispatch_output(locals.output)} :
         GatewayCall("get_size",
                     get_size_parse(Ret(env, d.ret,
                                        IF d.ret.ok THEN d.val[1] ELSE <<>>)))

InitGateway ==
    /\ tests = <<>>
    /\ default_test_params = TestParams(FlashromCmd("flashrom", "HOST"), "HOST",
                                        NoHook, NoHook)
    /\ locals \in {[NoLocals EXCEPT !.output = o] : o \in Outputs}
    /\ idx = 1
    /\ pc = "gateway"
    /\ res = NoResult
    /\ results = <<>>
    /\ events = <<>>
    /\ returned = <<>>
    /\ outcome = "running"
    /\ env = [chip |-> "orig", sw |-> FALSE, range |-> <<0, 0>>,
              battery |-> TRUE, fw_wp_en |-> FALSE, fw_wp |-> FALSE,
              files |-> <<>>, faults |-> 0, log |-> <<>>, calls |-> <<>>]
    /\ ops = <<>>
    /\ call = NoCall
    /\ entry = NoPair

NextGateway == Gateway_flashrom_dispatch \/ Gateway_get_size

SpecGateway == InitGateway /\ [][NextGateway]_vars

----------------------------------------------------------------------------
(* The wrappers alone: any of them, in any order, on any platform state    *)
(* they lead to. Every call starts with a fresh allowance of faults.       *)

\* the sections of a chip of RomSize bytes, as (name, start, len)
Sections == {layout_section(get_layout_sizes(RomSize).val, ln) : ln \in LayoutNames}

\* the caller's view of one call of a wrapper
LibCall(fn, args, r) ==
    /\ pc = "lib"
    /\ env' = [r.env EXCEPT !.faults = 0, !.log = <<>>, !.calls = <<>>]
    /\ ops' = Tagged(0, r.env.log)
    /\ call' = Called(fn, args, r, env)
    /\ UNCHANGED <<entry, tests, default_test_params, idx, pc, res, results, events,
                   returned, outcome, locals>>

Lib_flashrom_name ==
    \E r \in flashrom_name(env, default_test_params.cmd.fc) :
        LibCall("name", <<>>, r)

Lib_get_size ==
    \E r \in get_size(env, default_test_params.cmd.fc) :
        LibCall("get_size", <<>>, r)

Lib_wp_list ==
    \E r \in wp_list(env, default_test_params.cmd.fc) :
        LibCall("wp_list", <<>>, r)

Lib_wp_status ==
    \E en \in BOOLEAN : \E r \in wp_status(env, default_test_params.cmd.fc, en) :
        LibCall("wp_status", <<en>>, r)

Lib_wp_toggle ==
    \E en \in BOOLEAN : \E r \in wp_toggle(env, default_test_params.cmd.fc, en) :
        LibCall("wp_toggle", <<en>>, r)

Lib_wp_range ==
    \E sec \in Sections :
        \E r \in wp_range(env, default_test_params.cmd.fc, <<sec[2], sec[3]>>, TRUE) :
            LibCall("wp_range", <<<<sec[2], sec[3]>>, TRUE>>, r)

Lib_read ==
    \E r \in read(env, default_test_params.cmd.fc, READ_DAT) :
        LibCall("read", <<READ_DAT>>, r)

Lib_write ==
    \E r \in write(env, default_test_params.cmd.fc, READ_DAT) :
        LibCall("write", <<READ_DAT>>, r)

Lib_verify ==
    \E path \in {READ_DAT, RANDOM_BIN} :
        \E r \in verify(env, default_test_params.cmd.fc, path) :
            LibCall("verify", <<path>>, r)

Lib_erase ==
    \E r \in erase(env, default_test_params.cmd.fc) :
        LibCall("erase", <<>>, r)

Lib_write_file_with_layout ==
    \E sec \in Sections :
        LET rws == [layout_file |-> LAYOUT_FILE, write_file |-> RANDOM_BIN,
                    name_file |-> sec[1]]
        IN  \E r \in write_file_with_layout(env, default_test_params.cmd.fc, rws) :
                LibCall("write_file_with_layout", <<sec[1]>>, r)

Lib_consistent_flash_checks ==
    \E r \in consistent_flash_checks(env, default_test_params.cmd.fc) :
        LibCall("consistent_flash_checks", <<>>, r)

Lib_toggle_hw_wp ==
    \E dis \in BOOLEAN : \E r \in toggle_hw_wp(env, dis) :
        LibCall("toggle_hw_wp", <<dis>>, r)

Lib_get_hardware_wp ==
    \E r \in get_hardware_wp(env) :
        LibCall("get_hardware_wp", <<>>, r)

Lib_dut_ctrl_toggle_wp ==
    /\ default_test_params.cmd.fc = "SERVO"
    /\ \E en \in BOOLEAN : \E r \in dut_ctrl_toggle_wp(env, en) :
        LibCall("dut_ctrl_toggle_wp", <<en>>, r)

\* the body of "Toggle WP", from any protection state
Lib_wp_test_fn ==
    \E r \in wp_test_fn(env, default_test_params) :
        LibCall("wp_test_fn", <<>>, r)

\* what the wrappers find under /tmp once generic has set up its files
SetUpFiles ==
    (RANDOM_BIN :> Image("rand"))
    @@ (LAYOUT_FILE :> Layout(construct_layout_file(get_layout_sizes(RomSize).val)))

InitLib(fcs, envs) ==
    /\ tests = <<>>
    /\ \E fc \in fcs :
         default_test_params = TestParams(FlashromCmd("flashrom", fc), fc,
                                          NoHook, NoHook)
    /\ locals = NoLocals
    /\ idx = 1
    /\ pc = "lib"
    /\ res = NoResult
    /\ results = <<>>
    /\ events = <<>>
    /\ returned = <<>>
    /\ outcome = "running"
    /\ env \in envs
    /\ ops = <<>>
    /\ call = NoCall
    /\ entry = NoPair

\* the write-protect wrappers, from any protection state
InitWp ==
    InitLib({"HOST", "SERVO"},
            [chip : {"orig"}, sw : BOOLEAN, range : {<<0, 0>>, <<0, RomSize>>},
             battery : BOOLEAN, fw_wp_en : {FALSE}, fw_wp : {FALSE},
             files : {SetUpFiles}, faults : {0}, log : {<<>>},
             calls : {<<>>}])

NextWp ==
    \/ Lib_flashrom_name \/ Lib_get_size \/ Lib_wp_list \/ Lib_wp_status
    \/ Lib_wp_toggle \/ Lib_wp_range \/ Lib_toggle_hw_wp
    \/ Lib_get_hardware_wp \/ Lib_dut_ctrl_toggle_wp \/ Lib_wp_test_fn

SpecWp == InitWp /\ [][NextWp]_vars

\* the body of "Lock"
Lib_lock_test_fn ==
    \E r \in lock_test_fn(env, default_test_params) :
        LibCall("lock_test_fn", <<>>, r)

\* the two write-protect scenarios, for every chip kind and from any
\* protection state
InitScenarios ==
    InitLib(FlashChip,
            [chip : {"orig"}, sw : BOOLEAN, range : {<<0, 0>>, <<0, RomSize>>},
             battery : BOOLEAN, fw_wp_en : BOOLEAN, fw_wp : BOOLEAN,
             files : {SetUpFiles}, faults : {0}, log : {<<>>},
             calls : {<<>>}])

NextScenarios == Lib_wp_test_fn \/ Lib_lock_test_fn

SpecScenarios == InitScenarios /\ [][NextScenarios]_vars

----------------------------------------------------------------------------
(* The destructive scenario bodies alone: one run of "Erase/Write" or of   *)
(* test_section, from any protection state, on a chip that holds the saved  *)
(* image or has drifted from it. A body on its own is followed through      *)
(* BodyFaults faults of the platform, so that a fault during the body and   *)
(* one more during its repair are both seen.                                *)

\* faults of the platform explored within one body
BodyFaults == 2

\* the caller's view of one run of a body
BodyCall(fn, args, r) ==
    /\ pc = "lib"
    /\ pc' = "done"
    /\ env' = Cleared(r.env)
    /\ ops' = Tagged(0, r.env.log)
    /\ call' = Called(fn, args, r, env)
    /\ UNCHANGED <<entry, tests, default_test_params, idx, res, results, events,
                   returned, outcome, locals>>

\* the body of "Erase/Write"
Body_erase_write_test_fn ==
    \E r \in erase_write_test_fn(env, default_test_params) :
        BodyCall("erase_write_test_fn", <<>>, r)

\* test_section, as the four section-lock bodies call it
Body_test_section ==
    \E sec \in Sections :
        \E r \in test_section(env, default_test_params.cmd.fc, sec) :
            BodyCall("test_section", <<sec[1]>>, r)

InitBodies ==
    InitLib({"HOST"},
            [chip : {"orig", "rand"}, sw : BOOLEAN,
             range : {<<0, 0>>, <<0, RomSize>>},
             battery : BOOLEAN, fw_wp_en : {FALSE}, fw_wp : {FALSE},
             files : {SetUpFiles, (READ_DAT :> Image("orig")) @@ SetUpFiles},
             faults : {MaxFaults - BodyFaults}, log : {<<>>}, calls : {<<>>}])

NextBodies == Body_erase_write_test_fn \/ Body_test_section

SpecBodies == InitBodies /\ [][NextBodies]_vars

\* the wrappers that read and change the contents, under any protection
InitGolden ==
    InitLib({"HOST"},
            [chip : {"orig"}, sw : BOOLEAN,
             range : {<<0, 0>>, <<0, RomSize>>}
                        \cup {<<sec[2], sec[3]>> : sec \in Sections},
             battery : {TRUE}, fw_wp_en : {FALSE}, fw_wp : {FALSE},
             files : {SetUpFiles}, faults : {0}, log : {<<>>},
             calls : {<<>>}])

NextGolden ==
    \/ Lib_read \/ Lib_write \/ Lib_verify \/ Lib_erase
    \/ Lib_write_file_with_layout \/ Lib_consistent_flash_checks

SpecGolden == InitGolden /\ [][NextGolden]_vars

----------------------------------------------------------------------------
(* Properties of the sequencer                                             *)

\* the reconciliation table of the specification, for expected Pass / Fail
Table(ok, con) ==
    CASE ok /\ con = "Pass" -> "Pass"
      [] ok /\ con = "Fail" -> "UnexpectedPass"
      [] ~ok /\ con = "Pass" -> "UnexpectedFail"
      [] ~ok /\ con = "Fail" -> "Pass"

\* the events of case i, in the order they happened
EventsOf(i) ==
    LET mine(ev) == ev[1] = i
        step(ev) == ev[2]
        sel == SelectSeq(events, mine)
    IN  [j \in 1..Len(sel) |-> sel[j][2]]

\* C1: every recorded outcome is the one the reconciliation table gives for
\* what the body returned (success or error) and the declared expected
\* conclusion (Pass or Fail).
C1_ReconciliationTable ==
    \A i \in 1..Len(results) :
        tests[i].conclusion \in {"Pass", "Fail"} =>
            results[i].out.conclusion = Table(returned[i].ok, tests[i].conclusion)

\* a run that met success with expected Fail and an error with expected Fail
C1_Witness ==
    /\ Len(results) >= 2
    /\ \E i, j \in 1..Len(results) :
         /\ returned[i].ok /\ tests[i].conclusion = "Fail"
         /\ results[i].out.conclusion = "UnexpectedPass"
         /\ ~returned[j].ok /\ tests[j].conclusion = "Fail"
         /\ results[j].out.conclusion = "Pass"

\* C2: an entry retains an error exactly when its outcome is
\* UnexpectedFail, and the error retained is the one the body returned.
C2_ErrorRetainedIffUnexpectedFail ==
    \A i \in 1..Len(results) :
        /\ (results[i].out.error # None) <=>
               (results[i].out.conclusion = "UnexpectedFail")
        /\ results[i].out.conclusion = "UnexpectedFail" =>
               /\ ~returned[i].ok
               /\ results[i].out.error = returned[i].e

\* one entry retains its body's error, another dropped an anticipated error
C2_Witness ==
    \E i, j \in 1..Len(results) :
        /\ results[i].out.conclusion = "UnexpectedFail"
        /\ results[i].out.error = "another failure"
        /\ ~returned[j].ok /\ tests[j].conclusion = "Fail"
        /\ results[j].out.error = None

\* C3: run_all_tests has one entry per case it ran, in registration order,
\* the i-th with the i-th case's name and reconciled outcome, and one for
\* every registered case when it returns.
C3_OneEntryPerCaseInOrder ==
    /\ Len(results) <= Len(tests)
    /\ pc = "ran_all" => Len(results) = Len(tests)
    /\ \A i \in 1..Len(results) :
         /\ results[i].name = tests[i].name
         /\ results[i].out = decode_test_result(returned[i], tests[i].conclusion)
         /\ tests[i].conclusion \in {"Pass", "Fail"} =>
              results[i].out.conclusion = Table(returned[i].ok, tests[i].conclusion)

\* the three cases of the specification's end-to-end example, after the run
C3_Witness ==
    /\ pc = "ran_all"
    /\ Len(tests) = 3
    /\ tests[1].conclusion = "Pass" /\ returned[1].ok
    /\ tests[2].conclusion = "Fail" /\ ~returned[2].ok
    /\ tests[3].conclusion = "Pass" /\ ~returned[3].ok
    /\ [i \in 1..3 |-> results[i].out.conclusion]
           = <<"Pass", "Pass", "UnexpectedFail">>
    /\ [i \in 1..3 |-> results[i].out.error # None] = <<FALSE, FALSE, TRUE>>

\* the state of case i in the state machine of the specification
CaseState(i) ==
    IF i <= Len(results) THEN results[i].out.conclusion
    ELSE IF i = idx /\ pc \in {"body", "post", "decode"} THEN "Running"
    ELSE "Pending"

\* C5: cases run one at a time and once each: the events are in case
\* order, no event of a case happens before every earlier case has its
\* outcome, the body of a case has run once if the case is past its body
\* and not at all otherwise.
C5_OneAtATime ==
    /\ Len(results) = idx - 1
    /\ \A j, k \in 1..Len(events) : j < k => events[j][1] <= events[k][1]
    /\ \A j \in 1..Len(events) : events[j][1] <= Len(results) + 1
    /\ \A i \in 1..Len(tests) :
         LET bodies == Cardinality({j \in 1..Len(events) :
                                      events[j] = <<i, "test_fn">>})
         IN  /\ CaseState(i) = "Pending" => EventsOf(i) \in {<<>>}
             /\ (i < idx \/ (i = idx /\ pc \in {"post", "decode"})) => bodies = 1
             /\ (i > idx \/ (i = idx /\ pc \in {"pre", "body"})) => bodies = 0
    /\ pc = "ran_all" => \A i \in 1..Len(tests) : CaseState(i) \in TestConclusion

\* a second case is running after the first reached its outcome
C5_Witness ==
    /\ idx = 2 /\ pc = "post"
    /\ CaseState(1) \in TestConclusion /\ CaseState(2) = "Running"
    /\ Len(tests) = 3 /\ CaseState(3) = "Pending"

\* C6: for every case that has its outcome, a configured pre-hook ran once
\* and before the body, a configured post-hook once and after it, whatever
\* the body returned; the outcome depends on the body and the declared
\* conclusion alone.
C6_HooksOnceAroundBody ==
    \A i \in 1..Len(results) :
        /\ EventsOf(i) =
              (IF default_test_params.pre_fn # NoHook THEN <<"pre_fn">> ELSE <<>>)
              \o <<"test_fn">>
              \o (IF default_test_params.post_fn # NoHook THEN <<"post_fn">> ELSE <<>>)
        /\ results[i].out = decode_test_result(returned[i], tests[i].conclusion)

\* a case with both hooks whose body failed has its outcome
C6_Witness ==
    /\ Len(results) >= 1
    /\ default_test_params.pre_fn # NoHook
    /\ default_test_params.post_fn # NoHook
    /\ ~returned[1].ok
    /\ EventsOf(1) = <<"pre_fn", "test_fn", "post_fn">>

----------------------------------------------------------------------------
(* Properties of the wrappers                                              *)

\* the arguments of a run of the utility after "flashrom -p <programmer>"
Params(cmd) == SubSeq(cmd.argv, 4, Len(cmd.argv))

\* a run of the utility with these arguments
IsRun(cmd, params) == cmd.argv[1] = "flashrom" /\ Params(cmd) = params

\* C7 as stated: with the hardware line asserted, wp_toggle(false) fails
\* without running the utility and software write-protect stays as it was
C7_DisableRefusedWithoutDispatch ==
    (call.fn = "wp_toggle" /\ call.args = <<FALSE>> /\ hw_wp(call.was)) =>
        /\ ~call.ret.ok
        /\ call.cmds = <<>>
        /\ env.sw = call.was.sw

\* C7: wp_toggle(false) checks no precondition: whatever the hardware line,
\* its first step is a run of the utility with --wp-disable. If that run
\* fails the call fails, nothing else is run and software write-protect
\* stays as it was; if it succeeds, --wp-status is run once and the call is
\* Ok exactly if that run succeeds.
C7_DisableIsLeftToTheUtility ==
    (call.fn = "wp_toggle" /\ call.args = <<FALSE>>) =>
        /\ Len(call.cmds) >= 1
        /\ IsRun(call.cmds[1], <<"--wp-disable">>)
        /\ call.cmds[1].status # "ok" =>
              /\ Len(call.cmds) = 1
              /\ ~call.ret.ok
              /\ env.sw = call.was.sw
        /\ call.cmds[1].status = "ok" =>
              /\ Len(call.cmds) = 2
              /\ IsRun(call.cmds[2], <<"--wp-status">>)
              /\ call.ret.ok <=> call.cmds[2].status = "ok"

\* hardware line asserted, software write-protect enabled: the utility was
\* run and turned the request down
C7_Witness ==
    /\ call.fn = "wp_toggle" /\ call.args = <<FALSE>>
    /\ hw_wp(call.was) /\ call.was.sw
    /\ Len(call.cmds) = 1 /\ call.cmds[1].status = "exit"
    /\ ~call.ret.ok /\ env.sw

\* C8: toggle_hw_wp queries the hardware line again after the operator's
\* key press, and fails when the line is not as requested
C8_ToggleIsConfirmed ==
    call.fn = "toggle_hw_wp" =>
        /\ \E i \in 1..Len(call.cmds) : call.cmds[i].argv[1] = "crossystem"
        /\ hw_wp(env) # ~call.args[1] => ~call.ret.ok

\* C10: consistent_flash_checks first verifies the chip against the saved
\* image and returns Ok without a write if that succeeds; otherwise it
\* writes the saved image once and verifies once more, and fails if the
\* write or the second verify fails; it never writes twice.
C10_VerifyThenAtMostOneRepair ==
    call.fn = "consistent_flash_checks" =>
        LET cs == call.cmds
            v == <<"-v", READ_DAT>>
            w == <<"-w", READ_DAT>>
        IN  /\ Len(cs) \in 1..3
            /\ IsRun(cs[1], v)
            /\ cs[1].status = "ok" => Len(cs) = 1 /\ call.ret.ok
            /\ cs[1].status # "ok" =>
                  /\ Len(cs) >= 2
                  /\ IsRun(cs[2], w)
                  /\ cs[2].status # "ok" => Len(cs) = 2 /\ ~call.ret.ok
                  /\ cs[2].status = "ok" =>
                        /\ Len(cs) = 3
                        /\ IsRun(cs[3], v)
                        /\ call.ret.ok <=> cs[3].status = "ok"
            /\ Cardinality({i \in 1..Len(cs) : IsRun(cs[i], w)}) <= 1

\* the chip had drifted, the repair was written and the verify after it
\* failed
C10_Witness ==
    /\ call.fn = "consistent_flash_checks"
    /\ Len(call.cmds) = 3
    /\ call.cmds[2].status = "ok"
    /\ call.cmds[3].status # "ok"
    /\ ~call.ret.ok

----------------------------------------------------------------------------
(* Properties of generic                                                   *)

\* the calls of the setup of generic, each followed by `?`
SetupFns == {"name", "get_size", "get_layout_sizes", "construct_layout_file",
             "gen_rand_testdata", "collect_crosssystem"}

\* generic has ended with the error of a setup call
SetupFailed == call.fn \in SetupFns /\ ~call.ret.ok

\* the body of case i has been executed
Executed(i) == \E j \in 1..Len(events) : events[j] = <<i, "test_fn">>

\* C4 as stated: once the setup has succeeded generic returns Ok, whatever
\* the scenarios do.
C4_OkOnceSetupSucceeded ==
    (pc = "done" /\ ~SetupFailed) => outcome = "Ok"

\* C4: generic returns an error only from a setup call, before any case is
\* registered. A body that returns an error never ends the run: the run goes
\* on to the post-hook and the next case, and when generic returns after the
\* setup it returns Ok with every registered body executed and every outcome
\* collected. A run whose setup succeeded ends otherwise only in a panic: in
\* ec() for chip kind EC, before any case is registered, or in a body.
C4_ErrorsNeverAbort ==
    /\ outcome = "Err" =>
         /\ pc = "done" /\ SetupFailed
         /\ tests = <<>> /\ events = <<>> /\ results = <<>>
    /\ \A i \in 1..Len(returned) :
         ~returned[i].ok =>
            \/ i = idx /\ pc \in {"post", "decode"}
            \/ i < idx /\ Len(results) >= i
    /\ outcome = "Ok" =>
         /\ pc = "done" /\ ~SetupFailed
         /\ Len(tests) = Len(registered)
         /\ Len(results) = Len(tests) /\ Len(returned) = Len(tests)
         /\ \A i \in 1..Len(tests) : Executed(i)
    /\ (pc = "done" /\ ~SetupFailed) => outcome \in {"Ok", "panic"}
    /\ outcome = "panic" =>
         \/ locals.cmd.fc = "EC" /\ tests = <<>> /\ events = <<>>
         \/ locals.cmd.fc # "EC" /\ IsPanic(call.ret) /\ pc = "done"
            /\ Executed(idx) /\ Len(results) = idx - 1

\* generic has returned Ok although an early body returned an error that
\* was not expected, and the bodies after it returned too
C4_Witness ==
    /\ outcome = "Ok"
    /\ \E i \in 1..3 :
         /\ ~returned[i].ok
         /\ results[i].out.conclusion = "UnexpectedFail"
         /\ \E k \in (i + 1)..Len(returned) : returned[k].ok

\* the run of dut-control a hook of case i made, if it ended with `status`
HookRun(i, args, status) ==
    \E k \in 1..Len(ops) :
        ops[k] = [case |-> i, argv |-> <<"dut-control">> \o args,
                  status |-> status]

\* case idx of a SERVO run is past its hooks and both runs of dut-control
\* succeeded
ServoHooksDone ==
    /\ default_test_params.fc = "SERVO"
    /\ pc = "decode"
    /\ HookRun(idx, <<"fw_wp_en:on", "fw_wp:off">>, "ok")
    /\ HookRun(idx, <<"fw_wp_en:off", "fw_wp:on">>, "ok")

\* C9 as stated, for SERVO: after the pre-hook, the scenario and the
\* post-hook the hardware write-protect state is the one that held before the
\* scenario.
C9_HooksRestoreHardware ==
    ServoHooksDone => WpPair(env).hardware = entry.hardware

\* C9: nothing is saved and nothing is restored. For SERVO the pre-hook asks
\* dut-control for fw_wp_en:on fw_wp:off and the post-hook for fw_wp_en:off
\* fw_wp:on, whatever held before: after a pre-hook that succeeded the servo
\* holds hardware write-protect off, after a post-hook that succeeded the
\* servo controls are (off, on) and the hook has changed nothing else, so
\* that software write-protect stays as the scenario left it.
C9_HooksSetFixedControls ==
    default_test_params.fc = "SERVO" =>
      /\ pc = "body" =>
           /\ call.fn = "servo_pre_fn"
           /\ Len(call.cmds) = 1
           /\ call.cmds[1].argv = <<"dut-control", "fw_wp_en:on", "fw_wp:off">>
           /\ call.ret.ok =>
                /\ env.fw_wp_en /\ ~env.fw_wp /\ ~hw_wp(env)
                /\ env.sw = entry.software
      /\ pc = "decode" =>
           /\ call.fn = "servo_post_fn"
           /\ Len(call.cmds) = 1
           /\ call.cmds[1].argv = <<"dut-control", "fw_wp_en:off", "fw_wp:on">>
           /\ call.ret.ok =>
                /\ ~env.fw_wp_en /\ env.fw_wp
                /\ env.sw = call.was.sw /\ env.range = call.was.range
                /\ env.battery = call.was.battery /\ env.chip = call.was.chip

\* both hooks of a SERVO case succeeded and neither the hardware nor the
\* software write-protect state is the one the case started with
C9_Witness ==
    /\ ServoHooksDone
    /\ call.ret.ok
    /\ WpPair(env).hardware # entry.hardware
    /\ WpPair(env).software # entry.software

----------------------------------------------------------------------------
(* Properties of the saved image                                           *)

\* the chip holds what /tmp/flashrom_tester_read.dat holds: a verify
\* against the saved image would succeed
Golden(e) == file(e, READ_DAT) = Image(e.chip)

\* the wrappers that change the contents of the chip
Writers == {"write", "erase", "write_file_with_layout"}

\* C11 as stated: once the contents have drifted from the saved image, only
\* a consistent_flash_checks that succeeds makes the chip golden again (the
\* saved image being the same before and after).
C11_GoldenAgainOnlyByCheck ==
    (/\ call.fn # "none"
     /\ env.files = call.was.files
     /\ ~Golden(call.was) /\ Golden(env)) =>
        (call.fn = "consistent_flash_checks" /\ call.ret.ok)

\* C11: whenever consistent_flash_checks returns Ok the chip holds the saved
\* image. A write or erase that changes the contents of a golden chip leaves
\* it not golden. A chip that is not golden becomes golden again only by a
\* call that changes the chip or the saved image: consistent_flash_checks,
\* but also a write, an erase or a new read into the saved image file; a
\* verify never makes it golden, and a consistent_flash_checks that does
\* so has written the saved image.
C11_GoldenAfterCheck ==
    /\ (call.fn = "consistent_flash_checks" /\ call.ret.ok) => Golden(env)
    /\ (call.fn \in Writers /\ Golden(call.was) /\ env.chip # call.was.chip)
          => ~Golden(env)
    /\ (call.fn # "none" /\ ~Golden(call.was) /\ Golden(env)) =>
          /\ call.fn \in Writers \cup {"read", "consistent_flash_checks"}
          /\ env.chip # call.was.chip \/ env.files # call.was.files
          /\ call.fn = "consistent_flash_checks" =>
                \E k \in 1..Len(call.cmds) :
                    IsRun(call.cmds[k], <<"-w", READ_DAT>>)

\* consistent_flash_checks found an erased chip and returned Ok with the
\* saved image written back
C11_Witness ==
    /\ call.fn = "consistent_flash_checks" /\ call.ret.ok
    /\ call.was.chip = "erased" /\ ~Golden(call.was)
    /\ Golden(env) /\ env.chip = "orig"

\* the bodies of the scenarios that erase or write: Erase/Write and the
\* four section locks
SectionFns == {"lock_top_quad_test_fn", "lock_top_half_test_fn",
               "lock_bottom_half_test_fn", "lock_bottom_quad_test_fn"}
DestructiveFns == {"erase_write_test_fn"} \cup SectionFns

\* a run of the utility that erases, writes or changes write-protect
Destructive(cmd) ==
    /\ cmd.argv[1] = "flashrom"
    /\ \E flag \in {"-E", "-w", "--wp-enable", "--wp-disable", "--wp-range"} :
          Has(Params(cmd), flag)

\* a verify against the saved image that succeeded
VerifiedGolden(cmd) == IsRun(cmd, <<"-v", READ_DAT>>) /\ cmd.status = "ok"

\* consistent_flash_checks was entered before the k-th run of the last body
CheckedBefore(k) ==
    \E c \in 1..Len(call.calls) :
        call.calls[c].fn = "consistent_flash_checks" /\ call.calls[c].at < k

\* C12 as stated: each destructive body has entered consistent_flash_checks
\* before its first run of the utility that erases, writes or changes
\* write-protect.
C12_CheckBeforeDestruction ==
    call.fn \in DestructiveFns =>
        \A k \in 1..Len(call.cmds) : Destructive(call.cmds[k]) => CheckedBefore(k)

\* C12: the four section locks enter consistent_flash_checks right after
\* reading the size and before anything else; Erase/Write never enters it:
\* it reads the chip into the saved image file and verifies against it. In
\* all five, a run that erases, writes or changes write-protect comes after
\* a verify against the saved image that succeeded, or is the write by which
\* consistent_flash_checks restores the image after a verify that failed.
C12_VerifiedBeforeDestruction ==
    LET cs == call.cmds
    IN  /\ call.fn \in SectionFns =>
              /\ Len(cs) >= 2 =>
                    /\ call.calls # <<>>
                    /\ call.calls[1] = [fn |-> "consistent_flash_checks", at |-> 1]
                    /\ IsRun(cs[2], <<"-v", READ_DAT>>)
              /\ \A k \in 1..Len(cs) : Destructive(cs[k]) => CheckedBefore(k)
        /\ call.fn = "erase_write_test_fn" =>
              /\ call.calls = <<>>
              /\ Len(cs) >= 1 => IsRun(cs[1], <<"-r", READ_DAT>>)
              /\ Len(cs) >= 2 => IsRun(cs[2], <<"-v", READ_DAT>>)
        /\ call.fn \in DestructiveFns =>
              \A k \in 1..Len(cs) :
                  Destructive(cs[k]) =>
                     \/ \E j \in 1..(k - 1) : VerifiedGolden(cs[j])
                     \/ /\ IsRun(cs[k], <<"-w", READ_DAT>>)
                        /\ IsRun(cs[k - 1], <<"-v", READ_DAT>>)
                        /\ cs[k - 1].status # "ok"
                        /\ CheckedBefore(k)

\* a section lock that passed: consistent_flash_checks found the chip golden
\* and the section was locked after it
C12_Witness ==
    /\ call.fn \in SectionFns /\ call.ret.ok
    /\ call.calls = <<[fn |-> "consistent_flash_checks", at |-> 1]>>
    /\ VerifiedGolden(call.cmds[2])
    /\ \E k \in 3..Len(call.cmds) :
          Destructive(call.cmds[k]) /\ Has(Params(call.cmds[k]), "--wp-range")

\* the runs so far that read the chip into the saved image file
Captures ==
    {k \in 1..Len(ops) :
        IsRun(ops[k], <<"-r", READ_DAT>>) /\ ops[k].status = "ok"}

\* the position of a case in the registration order
CaseOf(fn) == CHOOSE i \in 1..Len(registered) : registered[i].test_fn = fn

\* C13 as stated: the saved image is captured once in a run and no scenario
\* writes the file again.
C13_CapturedOnce == Cardinality(Captures) <= 1

\* C13: the saved image is read from the chip by Read and read again, into
\* the same file, by Erase/Write at its start; no other scenario and no setup
\* step reads the chip into a file. Both reads happen before any scenario
\* has changed the chip, so at every moment the file, once written, holds
\* the contents the chip had at the start of the run.
C13_CapturedBeforeAnyChange ==
    /\ \A k \in 1..Len(ops) :
          (ops[k].argv[1] = "flashrom" /\ Has(Params(ops[k]), "-r")) =>
             /\ IsRun(ops[k], <<"-r", READ_DAT>>)
             /\ ops[k].case \in {CaseOf("read_test_fn"), CaseOf("erase_write_test_fn")}
             /\ \A j \in 1..(k - 1) :
                   ops[j].case = ops[k].case => ops[j].argv[1] # "flashrom"
    /\ Cardinality(Captures) <= 2
    /\ file(env, READ_DAT) \in {Absent, Image("orig")}
    /\ Captures # {} => file(env, READ_DAT) = Image("orig")

\* the run is over, the image was captured by Read and again by Erase/Write,
\* and the chip no longer holds what the file holds
C13_Witness ==
    /\ outcome = "Ok"
    /\ Cardinality(Captures) = 2
    /\ env.chip # "orig"
    /\ file(env, READ_DAT) = Image("orig")

----------------------------------------------------------------------------
(* Properties of the layout functions                                      *)

\* the last call was get_layout_sizes(n)
Sized(n) == call.fn = "get_layout_sizes" /\ call.args = <<n>>

\* C14: get_layout_sizes fails for every rom size <= 0 and for every odd
\* rom size, and succeeds for every positive even rom size.
C14_RejectsNonPositiveAndOdd ==
    \A n \in RomSizes :
        Sized(n) =>
            /\ n <= 0 => ~call.ret.ok /\ call.ret.e = "invalid rom size provided"
            /\ (n > 0 /\ n % 2 = 1) => ~call.ret.ok
            /\ (n > 0 /\ n % 2 = 0) => call.ret.ok /\ call.val # <<>>

\* rom size 0 has been turned down
C14_Witness == Sized(0) /\ ~call.ret.ok

\* the last call was layout_section(ln) on the sizes of an accepted rom size
Sectioned(ln) ==
    call.fn = "layout_section" /\ call.args = <<ln>> /\ locals.rom_sz > 0

\* C15: for every accepted rom size, quad = rom_size/4 and half =
\* rom_size/2; the top quad starts at 3*quad, the top half at half, both
\* bottom partitions at 0; the bottom half ends at half-1, the bottom quad
\* at quad-1 and both top partitions at rom_size-1.
C15_PartitionBounds ==
    /\ \A n \in RomSizes :
          (Sized(n) /\ call.ret.ok) =>
             /\ call.val.quad_sz = n \div 4
             /\ call.val.half_sz = n \div 2
             /\ call.val.top_quad_bottom = 3 * call.val.quad_sz
             /\ call.val.bottom_half_top = call.val.half_sz - 1
             /\ call.val.bottom_quad_top = call.val.quad_sz - 1
             /\ call.val.rom_top = n - 1
    /\ Sectioned("TopQuad") =>
          call.val = <<"TOP_QUAD", 3 * (locals.rom_sz \div 4), locals.rom_sz \div 4>>
    /\ Sectioned("TopHalf") =>
          call.val = <<"TOP_HALF", locals.rom_sz \div 2, locals.rom_sz \div 2>>
    /\ Sectioned("BottomHalf") =>
          call.val = <<"BOTTOM_HALF", 0, locals.rom_sz \div 2>>
    /\ Sectioned("BottomQuad") =>
          call.val = <<"BOTTOM_QUAD", 0, locals.rom_sz \div 4>>

\* the top quad of a 16-byte rom starts at 12
C15_Witness ==
    Sectioned("TopQuad") /\ locals.rom_sz = 16 /\ call.val[2] = 12

IsPowerOfTwo(n) == \E k \in 0..(MaxRomBits + 1) : n = 2 ^ k

\* C16: get_layout_sizes rejects every rom size that is not a power of 2,
\* so layout sizes are only ever produced for power-of-two rom sizes.
C16_OnlyPowersOfTwo ==
    \A n \in RomSizes : (Sized(n) /\ call.ret.ok) => IsPowerOfTwo(n)

\* the last call wrote the layout file for the sizes in locals
Written == call.fn = "construct_layout_file" /\ call.ret.ok

\* the first and the last offset of the four partitions, in the order of
\* the lines of the layout file
Partitions(ls) ==
    << <<"BOTTOM_QUAD", 0, ls.bottom_quad_top>>,
       <<"BOTTOM_HALF", 0, ls.bottom_half_top>>,
       <<"TOP_HALF", ls.half_sz, ls.rom_top>>,
       <<"TOP_QUAD", ls.top_quad_bottom, ls.rom_top>> >>

\* the last offset of each line's partition, from the rom size
LastOffsets(n) == <<(n \div 4) - 1, (n \div 2) - 1, n - 1, n - 1>>

C18_RoundTrip ==
    Written =>
        LET lines == file(env, LAYOUT_FILE).lines
        IN  \A i \in 1..4 :
               /\ ParseOffset(lines[i][1]).fits
               /\ ParseOffset(lines[i][3]).fits
               /\ <<lines[i][4], ParseOffset(lines[i][1]).val,
                     ParseOffset(lines[i][3]).val>>
                    = Partitions(locals.layout_sizes)[i]

----------------------------------------------------------------------------
(* Properties of the translation of an option set                          *)

\* the programmer selector of each chip kind
Selectors ==
    [fc \in FlashChip |->
        IF fc = "EC" THEN "ec"
        ELSE IF fc = "HOST" THEN "host"
        ELSE IF fc = "SERVO" THEN "ft2232_spi:type=servo-v2"
        ELSE "dediprog"]

\* C19: for every option set and every chip kind, the argument list passed
\* to the flashing utility begins with -p and the programmer selector of
\* the chip kind, and all option-specific arguments come after these two.
C19_ProgrammerFirst ==
    call.fn = "dispatch" =>
        /\ Len(call.cmds) = 1
        /\ LET argv == Tail(call.cmds[1].argv)
           IN  /\ Len(argv) >= 2
               /\ argv[1] = "-p"
               /\ argv[2] = Selectors[call.args[1]]
               /\ SubSeq(argv, 3, Len(argv)) = flashrom_decode_opts(call.args[2])

\* a servo run of an option set with a range, a read and a layout has been
\* dispatched, the programmer in front of its nine other arguments
C19_Witness ==
    /\ call.fn = "dispatch"
    /\ call.args[1] = "SERVO"
    /\ call.args[2].wp_opt.range # NoRange
    /\ call.args[2].io_opt.read # None
    /\ SubSeq(call.cmds[1].argv, 1, 4)
         = <<"flashrom", "-p", "ft2232_spi:type=servo-v2", "--wp-range">>

IoFlags == {"-r", "-w", "-v", "-E"}
WpFlags == {"--wp-status", "--wp-list", "--wp-enable", "--wp-disable"}

\* the positions of a list that hold a member of S
Positions(list, S) == {i \in 1..Len(list) : list[i] \in S}

\* C20: for every option set, also with several io fields set at once, the
\* translated list holds at most one of -r, -w, -v, -E (read before write
\* before verify before erase) and at most one of --wp-status, --wp-list,
\* --wp-enable, --wp-disable.
C20_OneIoOneWp ==
    call.fn = "flashrom_decode_opts" =>
        LET io == call.args[2].io_opt
            chosen == IF io.read # None THEN {"-r"}
                      ELSE IF io.write # None THEN {"-w"}
                      ELSE IF io.verify # None THEN {"-v"}
                      ELSE IF io.erase THEN {"-E"}
                      ELSE {}
        IN  /\ Cardinality(Positions(call.val, IoFlags)) <= 1
            /\ {call.val[i] : i \in Positions(call.val, IoFlags)} = chosen
            /\ Cardinality(Positions(call.val, WpFlags)) <= 1

\* an option set with all four io fields and all four write-protect fields
\* set has been translated to --wp-status -r <file>
C20_Witness ==
    /\ call.fn = "flashrom_decode_opts"
    /\ call.args[2].io_opt = [read |-> READ_DAT, write |-> RANDOM_BIN,
                              verify |-> READ_DAT, erase |-> TRUE]
    /\ call.args[2].wp_opt = [range |-> NoRange, status |-> TRUE, list |-> TRUE,
                              enable |-> TRUE, disable |-> TRUE]
    /\ SubSeq(call.val, 1, 3) = <<"--wp-status", "-r", READ_DAT>>

\* C21: no argument handed to the flashing utility contains whitespace: a
\* file path, layout path or image name with a space in it is rejected
\* instead of being passed through as an argument.
C21_NoSpacedArgument ==
    call.fn = "dispatch" =>
        \A k \in 1..Len(call.cmds) :
            \A i \in 1..Len(call.cmds[k].argv) :
                call.cmds[k].argv[i] \notin Spaced

----------------------------------------------------------------------------
(* Properties of the Result of a dispatch                                  *)

SignalText == "Process terminated by a signal"
ParseText == "'flashrom --get-size' output did not parse as int correctly"

\* the error text of an exit with code c after the error output err
ExitText(err, c) == err \o "\nExited with error code: " \o ToString(c)

\* C22: a dispatch returns the captured (stdout, stderr) if and only if the
\* process exits with code 0; a nonzero exit gives an error with the exit
\* code and the stderr text; a signal gives another error, without a code;
\* get_size gives a third error when the run succeeded and its output is
\* no integer.
C22_ResultOfOutput ==
    LET o == call.args[1]
    IN  /\ call.fn = "flashrom_dispatch" =>
             /\ call.ret.ok <=> o.code = <<0>>
             /\ call.ret.ok => call.val = <<o.stdout, o.stderr>>
             /\ \A c \in 1..MaxCode :
                   o.code = <<c>> => call.ret.e = ExitText(o.stderr, c)
             /\ o.code = <<>> => call.ret.e = SignalText
        /\ call.fn = "get_size" =>
             /\ call.ret.ok => o.code = <<0>> /\ call.val = RomSize
             /\ \A c \in 1..MaxCode :
                   o.code = <<c>> => call.ret.e = ExitText(o.stderr, c)
             /\ o.code = <<>> => call.ret.e = SignalText
             /\ (o.code = <<0>> /\ ~call.ret.ok) => call.ret.e = ParseText
        /\ \A c \in 1..MaxCode, err \in {x.stderr : x \in Outputs} :
             /\ ExitText(err, c) \notin {SignalText, ParseText}
             /\ \A c2 \in 1..MaxCode : c2 # c => ExitText(err, c2) # ExitText(err, c)

\* get_size has turned down the words "unknown chip" of a run that exited
\* with code 0
C22_Witness ==
    /\ call.fn = "get_size"
    /\ call.args[1].code = <<0>>
    /\ call.args[1].stdout = <<<<"unknown", "chip">>>>
    /\ ~call.ret.ok
    /\ call.ret.e = ParseText

----------------------------------------------------------------------------
(* Properties of the write-protect wrappers                                *)

\* the runs of a call that carry a flag
RunsWith(flag) == {k \in 1..Len(call.cmds) : Has(call.cmds[k].argv, flag)}

\* the size get_size makes of the output of a run
SizeReported(cmd) == parse_i64(vgrep(cmd.stdout, "coreboot")).v

\* C23: wp_toggle(true) sends, in one run, the enable flag together with
\* the range of offset 0 and of the length get_size reported;
\* wp_toggle(false) sends the disable flag and no range; no run carries
\* both the enable and the disable flag.
C23_EnableCarriesFullRange ==
    call.fn = "wp_toggle" =>
        /\ RunsWith("--wp-enable") \cap RunsWith("--wp-disable") = {}
        /\ call.args = <<TRUE>> =>
             /\ RunsWith("--wp-disable") = {}
             /\ IsRun(call.cmds[1], <<"--get-size">>)
             /\ RunsWith("--wp-enable") \subseteq {2}
             /\ RunsWith("--wp-range") \subseteq {2}
             /\ Len(call.cmds) >= 2 =>
                  IsRun(call.cmds[2],
                        <<"--wp-range", hex_string(0),
                          hex_string(SizeReported(call.cmds[1])), "--wp-enable">>)
             /\ call.ret.ok => Len(call.cmds) = 3
        /\ call.args = <<FALSE>> =>
             /\ RunsWith("--wp-enable") = {}
             /\ RunsWith("--wp-range") = {}
             /\ RunsWith("--get-size") = {}
             /\ IsRun(call.cmds[1], <<"--wp-disable">>)

\* wp_toggle(true) has passed with the range 0 .. RomSize + 1 that a skewed
\* size report gave it
C23_Witness ==
    /\ call.fn = "wp_toggle" /\ call.args = <<TRUE>> /\ call.ret.ok
    /\ SizeReported(call.cmds[1]) = RomSize + 1
    /\ Params(call.cmds[2])[3] = hex_string(RomSize + 1)

\* the output of a run holds these words in a row
Says(cmd, words) ==
    \E i \in 1..Len(cmd.stdout) : Contains(cmd.stdout[i], words)

\* C24: wp_status(en) returns true if and only if the status output holds
\* "write protect is enabled" (en) or "write protect is disabled" (~en); an
\* output with neither makes it return false for both; a failed dispatch
\* is returned as an error, not as false.
C24_SentinelDecides ==
    call.fn = "wp_status" =>
        /\ Len(call.cmds) = 1
        /\ IsRun(call.cmds[1], <<"--wp-status">>)
        /\ call.ret.ok <=> call.cmds[1].status = "ok"
        /\ (call.ret.ok /\ call.args = <<TRUE>>) =>
             (call.val <=> Says(call.cmds[1], <<"write", "protect", "is", "enabled">>))
        /\ (call.ret.ok /\ call.args = <<FALSE>>) =>
             (call.val <=> Says(call.cmds[1], <<"write", "protect", "is", "disabled">>))

\* wp_status(false) has answered false to an output with neither sentence
C24_Witness ==
    /\ call.fn = "wp_status" /\ call.args = <<FALSE>>
    /\ call.ret.ok /\ ~call.val
    /\ ~Says(call.cmds[1], <<"write", "protect", "is", "enabled">>)
    /\ ~Says(call.cmds[1], <<"write", "protect", "is", "disabled">>)

\* a run of --wp-list that makes wp_list fail: it failed, or wrote nothing
ListFails(cmd) ==
    IsRun(cmd, <<"--wp-list">>) /\ (cmd.status # "ok" \/ cmd.stdout = <<>>)

\* C25: wp_list returns an error when the utility succeeds with empty
\* output; in "Toggle WP" an error of wp_list is only logged: the body goes
\* on with the write-protect status query that follows, and does not
\* return the error of wp_list.
C25_ListErrorIsOnlyLogged ==
    /\ call.fn = "wp_list" =>
          /\ Len(call.cmds) = 1
          /\ ListFails(call.cmds[1]) <=> ~call.ret.ok
          /\ (call.cmds[1].status = "ok" /\ call.cmds[1].stdout = <<>>) =>
                call.ret.e = "wp_list isn't supported on platforms using the Linux kernel SPI driver wp_list"
    /\ call.fn = "wp_test_fn" =>
          \A k \in 1..Len(call.cmds) :
              ListFails(call.cmds[k]) =>
                  /\ Len(call.cmds) > k
                  /\ IsRun(call.cmds[k + 1], <<"--wp-status">>)
                  /\ ~call.ret.ok =>
                        call.ret.e # "wp_list isn't supported on platforms using the Linux kernel SPI driver wp_list"

\* "Toggle WP" has passed although its --wp-list run wrote nothing
C25_Witness ==
    /\ call.fn = "wp_test_fn"
    /\ call.ret.ok
    /\ \E k \in 1..Len(call.cmds) :
          /\ ListFails(call.cmds[k])
          /\ call.cmds[k].status = "ok"
          /\ Len(call.cmds) > k

----------------------------------------------------------------------------
(* Properties of the write-protect scenarios                               *)

\* the runs of a call that ask the platform for the hardware line
Queries == {k \in 1..Len(call.cmds) : call.cmds[k].argv[1] = "crossystem"}

\* the run after each status query of "Toggle WP" that found software
\* write-protect enabled right after the --wp-list run is of this program
AfterEnabled(program) ==
    \A k \in 1..Len(call.cmds) :
        (/\ IsRun(call.cmds[k], <<"--wp-list">>)
         /\ Len(call.cmds) >= k + 2
         /\ call.cmds[k + 1].status = "ok"
         /\ Says(call.cmds[k + 1], <<"write", "protect", "is", "enabled">>))
        => /\ call.cmds[k + 2].argv[1] = program
           /\ program = "flashrom" => IsRun(call.cmds[k + 2], <<"--wp-disable">>)

\* C26: for chip kinds SERVO and DEDIPROG the scenarios never ask the
\* platform for the hardware write-protect line and go the way of an
\* asserted line; for EC and HOST they ask and go the way of the answer.
C26_FixtureKindsAssumeAsserted ==
    call.fn \in {"wp_test_fn", "lock_test_fn"} =>
        LET fc == default_test_params.fc
        IN  /\ fc \in {"SERVO", "DEDIPROG"} =>
                 /\ Queries = {}
                 /\ call.fn = "wp_test_fn" => AfterEnabled("prompt")
                 /\ call.fn = "lock_test_fn" =>
                      /\ ~call.ret.ok
                      /\ RunsWith("--wp-disable") = {}
                      /\ (Len(call.cmds) = 4 /\ call.cmds[4].status = "ok") =>
                           call.ret.e = "Hardware write protect still asserted!"
            /\ fc \in {"EC", "HOST"} =>
                 /\ call.fn = "wp_test_fn" =>
                      /\ Queries = {1}
                      /\ hw_wp(call.was) => AfterEnabled("prompt")
                      /\ ~hw_wp(call.was) => AfterEnabled("flashrom")
                 /\ call.fn = "lock_test_fn" =>
                      /\ \A k \in RunsWith("--wp-disable") :
                            \E q \in Queries : q < k /\ call.cmds[q].status = "ok"
                      /\ call.ret.e = "Hardware write protect still asserted!" =>
                            Queries # {}

\* "Lock" for a servo has ended with "still asserted" on a platform whose
\* hardware line was not asserted, and has not asked
C26_Witness ==
    /\ call.fn = "lock_test_fn"
    /\ default_test_params.fc = "SERVO"
    /\ ~hw_wp(env)
    /\ Queries = {}
    /\ call.ret.e = "Hardware write protect still asserted!"

----------------------------------------------------------------------------
(* Properties of the setup of generic                                      *)

\* C27: if a setup step of generic fails (chip name, chip size, layout
\* sizes, layout file, random image, system information), generic returns
\* an error, no scenario has been run, and no write, erase or
\* write-protect change has been dispatched to the chip.
C27_SetupFailureEndsRunUntouched ==
    SetupFailed =>
        /\ pc = "done" /\ outcome = "Err"
        /\ tests = <<>> /\ events = <<>> /\ returned = <<>> /\ results = <<>>
        /\ \A k \in 1..Len(ops) : ~Destructive(ops[k])
        /\ env.chip = "orig"

\* generic has returned the error of gen_rand_testdata, with the layout
\* file written and the chip only asked for its name and size
C27_Witness ==
    /\ SetupFailed
    /\ call.fn = "gen_rand_testdata"
    /\ outcome = "Err"
    /\ LAYOUT_FILE \in DOMAIN env.files
    /\ Len(ops) = 4

----------------------------------------------------------------------------
(* Properties of the process                                               *)

\* the texts that name a chip kind
KindTexts == {"ec", "host", "servo-v2", "dediprog"}

\* tests::generic has been entered
GenericCalled == pc \notin {"main", "help", "exited"} \/ call.fn \in SetupFns

\* C28: a target-kind text outside the accepted set is rejected with an
\* error before generic is called, before any external command is run.
C28_UnknownKindRejectedFirst ==
    (Len(locals.args) = 3 /\ locals.args[3] \notin KindTexts) =>
        /\ ~GenericCalled
        /\ ops = <<>> /\ env.log = <<>> /\ env.files = <<>>
        /\ pc # "main" => outcome = "Err" /\ call.fn = "parse_args"

\* the kind text "bogus" after a usable path has been turned down
C28_Witness ==
    /\ locals.args = <<"flashrom_tester", "flashrom", "bogus">>
    /\ pc = "help"
    /\ call.ret.e = "Missing flashchip type, should be either 'ec', 'host', or 'servo-v2'."

\* C29: the exit status is zero when the run completed, whatever the
\* scenarios gave, and nonzero when argument parsing or setup failed.
C29_ExitStatusTellsCompletion ==
    pc = "exited" => (locals.exit = <<0>> <=> outcome = "Ok")

\* C30: whenever wp_toggle(en) returns Ok, the status query made after the
\* toggle has confirmed the requested state: it reported "enabled" for
\* en = true and did not report "enabled" for en = false.
C30_OkMeansConfirmed ==
    (call.fn = "wp_toggle" /\ call.ret.ok) =>
        LET st == call.cmds[Len(call.cmds)]
            enabled == Says(st, <<"write", "protect", "is", "enabled">>)
        IN  /\ IsRun(st, <<"--wp-status">>)
            /\ call.args = <<TRUE>> => enabled
            /\ call.args = <<FALSE>> => ~enabled

----------------------------------------------------------------------------
(* Properties of the destructive scenario bodies                           *)

\* the positions of the erase runs among the runs of the body
ErasesAt == {k \in 1..Len(call.cmds) : Has(call.cmds[k].argv, "-E")}

\* the erase attempted with both protections requested on: the first one
FirstErase == CHOOSE k \in ErasesAt : \A j \in ErasesAt : k <= j

\* the body of "Erase/Write" has returned, and its protected erase went
\* through
ProtectedEraseDone ==
    /\ call.fn = "erase_write_test_fn"
    /\ ErasesAt # {}
    /\ call.cmds[FirstErase].status = "ok"

\* run k of the body is the utility with `flag` and the saved image
SavedImageRun(k, flag) ==
    /\ k <= Len(call.cmds)
    /\ Has(call.cmds[k].argv, flag)
    /\ Has(call.cmds[k].argv, READ_DAT)

StillErases == "Hardware write protect asserted however can still erase!"

\* C31 as stated: after a protected erase that succeeded, the body writes
\* the saved image back and verifies it before it returns, and it returns an
\* error in every such case.
C31_RestoredAndVerifiedThenError ==
    ProtectedEraseDone =>
        /\ SavedImageRun(FirstErase + 1, "-w")
        /\ SavedImageRun(FirstErase + 2, "-v")
        /\ Len(call.cmds) = FirstErase + 2
        /\ ~call.ret.ok

\* C31: after a protected erase that succeeded, the body writes the saved
\* image back and, if that write succeeded, verifies it before it returns;
\* a failed write ends the body without a verify. It returns an error in
\* every such case (the text about the erase when the restore succeeded),
\* never success.
C31_RestoreAttemptedThenError ==
    ProtectedEraseDone =>
        LET k == FirstErase
        IN  /\ SavedImageRun(k + 1, "-w")
            /\ IF call.cmds[k + 1].status = "ok"
               THEN /\ SavedImageRun(k + 2, "-v")
                    /\ Len(call.cmds) = k + 2
                    /\ call.cmds[k + 2].status = "ok" => call.ret.e = StillErases
               ELSE Len(call.cmds) = k + 1
            /\ ~call.ret.ok

\* the protected erase went through, the restore succeeded and was verified
C31_Witness ==
    /\ ProtectedEraseDone
    /\ Len(call.cmds) = FirstErase + 2
    /\ call.cmds[FirstErase + 1].status = "ok"
    /\ call.cmds[FirstErase + 2].status = "ok"
    /\ call.ret = Err(StillErases)
    /\ call.was.chip = "orig" /\ Cleared(env).chip = "orig"

\* run k of the body is the request to the operator to (dis)connect the
\* battery
Prompted(k, dis) ==
    /\ k >= 1 /\ k <= Len(call.cmds)
    /\ call.cmds[k].argv = <<"prompt", IF dis THEN " > disconnect the battery"
                                        ELSE " > connect the battery">>

\* run k of the body is the utility with these arguments, and it exited
\* with code 0
RanOk(k, params) ==
    /\ k >= 1 /\ k <= Len(call.cmds)
    /\ IsRun(call.cmds[k], params)
    /\ call.cmds[k].status = "ok"

\* the runs k .. k+2 of the body are a wp_toggle(true) that returned Ok
EnabledAt(k) ==
    /\ RanOk(k, <<"--get-size">>)
    /\ k + 1 <= Len(call.cmds)
    /\ RanOk(k + 1, <<"--wp-range", hex_string(0),
                      hex_string(SizeReported(call.cmds[k])), "--wp-enable">>)
    /\ RanOk(k + 2, <<"--wp-status">>)

\* C32: in "Erase/Write" the unprotected erase comes right after a request
\* to de-assert hardware write-protect and a software write-protect disable
\* that succeeded, and the rewrite right after that erase succeeded; a body
\* that returns Ok has ended with a software write-protect enable that
\* succeeded and then the request to assert hardware write-protect.
C32_UnprotectedWorkBracketed ==
    call.fn = "erase_write_test_fn" =>
        LET n == Len(call.cmds)
        IN  /\ \A j, k \in ErasesAt :
                 j < k =>
                   /\ Prompted(k - 3, TRUE)
                   /\ RanOk(k - 2, <<"--wp-disable">>)
                   /\ RanOk(k - 1, <<"--wp-status">>)
                   /\ call.cmds[j].status # "ok"
            /\ \A k \in RunsWith("-w") :
                 /\ SavedImageRun(k, "-w")
                 /\ k - 1 \in ErasesAt
                 /\ call.cmds[k - 1].status = "ok"
            /\ call.ret.ok =>
                 /\ Prompted(n, FALSE)
                 /\ EnabledAt(n - 3)
                 /\ SavedImageRun(n - 4, "-w") /\ call.cmds[n - 4].status = "ok"
                 /\ Cardinality(ErasesAt) = 2

\* a body that went all the way: erased and rewrote the unprotected chip
\* and left with both protections requested on
C32_Witness ==
    /\ call.fn = "erase_write_test_fn"
    /\ call.ret.ok
    /\ Cardinality(ErasesAt) = 2
    /\ Prompted(Len(call.cmds), FALSE)
    /\ Cleared(env).sw /\ Cleared(env).battery
    /\ Cleared(env).chip = call.was.chip

\* the run of the body that writes random data into the section
SectionWrites == RunsWith("-i")

\* test_section has returned, having been called with a saved image in place
SectionTested ==
    /\ call.fn = "test_section"
    /\ file(call.was, READ_DAT).kind = "image"

\* C33: test_section returns Ok only if the utility refused the write of
\* random data into the locked section and the chip still verifies against
\* the saved image afterwards; and whenever it returns, Ok or Err, the
\* contents of the chip equal the saved image.
C33_SectionTestLeavesGolden ==
    SectionTested =>
        /\ call.ret.ok =>
             /\ SectionWrites # {}
             /\ \A k \in SectionWrites : call.cmds[k].status # "ok"
             /\ SavedImageRun(Len(call.cmds), "-v")
             /\ call.cmds[Len(call.cmds)].status = "ok"
        /\ Golden(Cleared(env))

----------------------------------------------------------------------------
(* Properties of the "Lock" scenario                                       *)

\* the runs of the body that try to disable software write-protect
DisablesAt == RunsWith("--wp-disable")

\* run k of the body is crossystem reporting the hardware write-protect
\* line as v ("1" asserted, "0" de-asserted)
Reported(k, v) ==
    /\ call.cmds[k].status = "ok"
    /\ call.cmds[k].stdout = <<<<"wpsw_cur", "=", v>>>>

\* the wp_toggle(false) made of the runs from k on returned Ok: the disable
\* run and the status run after it exited with code 0
DisableSucceeded(k) ==
    /\ RanOk(k, <<"--wp-disable">>)
    /\ RanOk(k + 1, <<"--wp-status">>)

\* C34: "Lock" returns Ok only if hardware write-protect was reported
\* de-asserted and the disable of software write-protect made then
\* succeeded, and hardware write-protect was later reported asserted and
\* the disable made then returned an error.
C34_LockPassNeedsBothHalves ==
    (call.fn = "lock_test_fn" /\ call.ret.ok) =>
        \E q1, q2 \in Queries : \E d1, d2 \in DisablesAt :
            /\ Queries = {q1, q2} /\ DisablesAt = {d1, d2}
            /\ q1 < d1 /\ d1 < q2 /\ q2 < d2
            /\ Reported(q1, "0") /\ DisableSucceeded(d1)
            /\ Reported(q2, "1") /\ ~DisableSucceeded(d2)
            /\ RanOk(Len(call.cmds), <<"--wp-status">>)
            /\ Len(call.cmds) = IF call.cmds[d2].status = "ok" THEN d2 + 2
                                ELSE d2 + 1

\* a "Lock" body that passed on a chip that refused the second disable
C34_Witness ==
    /\ call.fn = "lock_test_fn" /\ call.ret.ok
    /\ Cardinality(DisablesAt) = 2
    /\ \E d \in DisablesAt : call.cmds[d].status = "exit" /\ d + 1 = Len(call.cmds)
    /\ Cleared(env).sw /\ hw_wp(Cleared(env))

StillAsserted == "Hardware write protect still asserted!"

\* C39: for the chip kinds SERVO and DEDIPROG "Lock" never returns Ok: it
\* returns an error at the first hardware write-protect check at the
\* latest, without having asked the platform for the line and before any
\* run that would disable software write-protect.
C39_FixtureKindsNeverPassLock ==
    (call.fn = "lock_test_fn" /\ default_test_params.fc \in {"SERVO", "DEDIPROG"}) =>
        /\ ~call.ret.ok /\ ~IsPanic(call.ret)
        /\ DisablesAt = {} /\ Queries = {}
        /\ Len(call.cmds) <= 4
        /\ Prompted(1, TRUE)
        /\ (Len(call.cmds) = 4 /\ call.cmds[4].status = "ok") <=>
               call.ret.e = StillAsserted
        /\ call.ret.e = StillAsserted => EnabledAt(2)

\* a SERVO "Lock" body that enabled software write-protect and then gave up
\* at the first check
C39_Witness ==
    /\ call.fn = "lock_test_fn"
    /\ default_test_params.fc = "SERVO"
    /\ call.ret = Err(StillAsserted)
    /\ EnabledAt(2)
    /\ ~hw_wp(Cleared(env))

----------------------------------------------------------------------------
(* Properties of the order of the scenarios in a run                       *)

ExitCheck == "Flash image consistency check at end of tests"

\* the runs of the flashing utility in the history of the run
ChipRuns == {k \in 1..Len(ops) : ops[k].argv[1] = "flashrom"}

LastChipRun == CHOOSE k \in ChipRuns : \A j \in ChipRuns : j <= k

\* C35: the consistency check is the last registered case and runs after
\* every other case has run and has its outcome recorded; when its outcome
\* is Pass, the last run of the flashing utility in the whole run is a
\* verify of the saved image, made by that case, that succeeded.
C35_ExitCheckRunsLast ==
    /\ \A i \in 1..Len(tests) : tests[i].name = ExitCheck <=> i = Len(tests)
    /\ \A i \in 1..Len(tests) :
          (tests[i].name = ExitCheck /\ Executed(i)) =>
             /\ Len(results) >= Len(tests) - 1
             /\ \A j \in 1..Len(tests) : Executed(j)
             /\ \A j \in 1..Len(events) :
                   events[j][1] = i =>
                      \A k \in 1..Len(events) : events[k][1] # i => k < j
    /\ \A r \in 1..Len(results) :
          (results[r].name = ExitCheck /\ results[r].out.conclusion = "Pass") =>
             /\ ChipRuns # {}
             /\ IsRun(ops[LastChipRun], <<"-v", READ_DAT>>)
             /\ ops[LastChipRun].status = "ok"
             /\ tests[ops[LastChipRun].case].name = ExitCheck

\* a SERVO run that ended with the check passed; the post hook ran
\* dut-control after the verify
C35_Witness ==
    /\ outcome = "Ok"
    /\ results[Len(results)].name = ExitCheck
    /\ results[Len(results)].out.conclusion = "Pass"
    /\ Len(results) = 11
    /\ ops[Len(ops)].argv[1] = "dut-control"
    /\ ops[LastChipRun].case = 11

----------------------------------------------------------------------------
(* Properties of the layout functions and the layout file together         *)

\* the layout file holds the lines written for the sizes in locals
FileIsCurrent ==
    /\ locals.layout_sizes # <<>>
    /\ file(env, LAYOUT_FILE) = Layout(construct_layout_file(locals.layout_sizes))

\* the line of the layout file for the partition called name
LineOf(name) ==
    LET lines == file(env, LAYOUT_FILE).lines
    IN  lines[CHOOSE i \in 1..Len(lines) : lines[i][4] = name]

\* C36: for every accepted rom size and each of the four partitions, the
\* (start, length) that layout_section returns is the byte range of the
\* start:end line that construct_layout_file writes for the partition:
\* the starts are equal and start + length - 1 = end.
C36_SectionIsTheLineRange ==
    \A ln \in LayoutNames :
        (Sectioned(ln) /\ FileIsCurrent) =>
            LET line == LineOf(call.val[1])
            IN  /\ UnLowerHex(line[1]) = call.val[2]
                /\ UnLowerHex(line[3]) = call.val[2] + call.val[3] - 1

\* the byte range <<start, end>> the layout file gives the partition `name`
\* (-1 for an offset that does not read as one)
RangeOf(name) == <<UnLowerHex(LineOf(name)[1]), UnLowerHex(LineOf(name)[3])>>

Within(inner, outer) == outer[1] <= inner[1] /\ inner[2] <= outer[2]

\* C37: for every accepted rom size, each of the four partitions written
\* is non-empty and inside the rom (0 <= start <= end <= rom_size - 1),
\* the bottom half and the top half are disjoint and cover the rom from 0
\* to rom_size - 1, and each quad lies within the half of its side.
C37_PartitionsTileTheRom ==
    Written =>
        LET n == locals.rom_sz
            bq == RangeOf("BOTTOM_QUAD")
            bh == RangeOf("BOTTOM_HALF")
            th == RangeOf("TOP_HALF")
            tq == RangeOf("TOP_QUAD")
        IN  /\ \A r \in {bq, bh, th, tq} : 0 <= r[1] /\ r[1] <= r[2] /\ r[2] <= n - 1
            /\ bh[1] = 0 /\ bh[2] + 1 = th[1] /\ th[2] = n - 1
            /\ Within(bq, bh) /\ Within(tq, th)

----------------------------------------------------------------------------
(* Properties of the outcomes a run can record                             *)

----------------------------------------------------------------------------
(* Properties of a run for the chip kind EC                                *)

\* C40: for the chip kind EC no scenario is ever run: no case is
\* registered or started and the run never ends with Ok; it ends with the
\* error of a setup call when one failed, and otherwise, after the whole
\* setup succeeded, with a panic and not with an error returned.
C40_EcPanicsBeforeScenarios ==
    locals.cmd.fc = "EC" =>
        /\ tests = <<>> /\ events = <<>> /\ results = <<>> /\ returned = <<>>
        /\ pc \in {"main", "help", "name", "get_size", "get_layout_sizes", "layout_file",
                   "gen_rand_testdata", "collect_crosssystem", "params", "done",
                   "exited"}
        /\ \A k \in 1..Len(ops) : ops[k].case = 0
        /\ outcome \in {"running", "Err", "panic"}
        /\ outcome = "Err" <=> SetupFailed
        /\ outcome = "panic" =>
              /\ pc = "done"
              /\ call.fn = "collect_crosssystem" /\ call.ret.ok
              /\ file(env, LAYOUT_FILE).kind = "layout"
              /\ file(env, RANDOM_BIN).kind = "image"

\* an EC run whose setup went through and that ended in the panic
C40_Witness ==
    /\ locals.cmd.fc = "EC"
    /\ pc = "done" /\ outcome = "panic"
    /\ locals.rom_sz = RomSize
    /\ Len(ops) = 5

====
